---- MODULE Spec2Model ----
(***************************************************************************)
(* A model of the simulation kernel of thronglets: the Action Interpreter  *)
(* (src/src/core/actions/action_interpreter.py) with the AgentManager's    *)
(* inventory operations and the LocationGraph it reads, and the Tick       *)
(* Engine (src/src/core/simulation/tick_engine.py).                        *)
(***************************************************************************)
EXTENDS Integers, Sequences, FiniteSets, TLC

(***************************************************************************)
(* Bounds of the model.                                                    *)
(***************************************************************************)
\* capacity of every agent (AgentState.capacity, 100 by default)
MaxCap == 2
\* largest amount a Harvest asks for
MaxAmount == 3
\* largest action timestamp
MaxTime == 1
\* the num_ticks a run is asked for
NumTicks == 2

(***************************************************************************)
(* The world: agents, items, locations, recipes.                           *)
(***************************************************************************)
Agents == {"a", "b"}
\* ids an action may carry: the agents, an id no agent has, the empty id
AgentIds == Agents \cup {"ghost", ""}
Items == {"wheat", "wood"}
ResourceTypes == Items \cup {""}
\* the empty string is AgentState's default location (not a node)
Nodes == {"farm", "forest"}
Destinations == Nodes \cup {"nowhere", ""}
ProposalIds == {"p1", "p2"}
\* the keys of ActionInterpreter._pending_trades: the ids, and the empty
\* string, TradeProposalAction's default proposal_id
LedgerKeys == ProposalIds \cup {""}
RecipeIds == {"thresh", "none", ""}
\* AgentState.skills: the skills a recipe can train
Skills == {"milling"}

NoTrade == [proposer_id |-> "none"]

\* AgentState.capacity: agent a holds up to MaxCap, agent b one less
capacity == [a \in Agents |-> IF a = "a" THEN MaxCap ELSE MaxCap - 1]

\* LocationNode.resource_richness of the two nodes
resource_richness ==
  [n \in Nodes |-> [i \in Items |->
     IF n = "farm" /\ i = "wheat" THEN 1
     ELSE IF n = "forest" /\ i = "wood" THEN MaxCap + 1
     ELSE 0]]

\* LocationGraph.edges: one edge farm -> forest, not bidirectional
Edges == {[from_id |-> "farm", to_id |-> "forest", bidirectional |-> FALSE]}

\* LocationGraph._adjacency as built by add_edge
get_neighbors(location_id) ==
  {e.to_id : e \in {x \in Edges : x.from_id = location_id}}
    \cup {e.from_id : e \in {x \in Edges : x.bidirectional /\ x.to_id = location_id}}

\* LocationGraph.get_node: whether the id names a node
get_node(location_id) == location_id \in Nodes

\* LocationGraph.get_edge / travel_cost: finite exactly when an edge is found
travel_cost_finite(from_id, to_id) ==
  \E e \in Edges :
     \/ e.from_id = from_id /\ e.to_id = to_id
     \/ e.bidirectional /\ e.from_id = to_id /\ e.to_id = from_id

\* crafting_rules: recipe id -> inputs, outputs, skill_gain.  "thresh" has no
\* skill_gain entry (recipe.get("skill_gain", {})), "mill" trains milling
crafting_rules ==
  [r \in {"thresh", "mill"} |->
     IF r = "thresh"
     THEN [inputs  |-> [i \in Items |-> IF i = "wood" THEN 1 ELSE 0],
           outputs |-> [i \in Items |-> IF i = "wheat" THEN 2 ELSE 0],
           skill_gain |-> [k \in Skills |-> 0]]
     ELSE [inputs  |-> [i \in Items |-> IF i = "wheat" THEN 1 ELSE 0],
           outputs |-> [i \in Items |-> IF i = "wood" THEN 1 ELSE 0],
           skill_gain |-> [k \in Skills |-> 1]]]

(***************************************************************************)
(* Trade items and the item lists a TradeProposal may carry.               *)
(***************************************************************************)
TradeItem(t, q) == [item_type |-> t, quantity |-> q]

\* the (offered, requested) lists of the proposals the model submits: an
\* exchange, an offer that lists the same item twice, a bare request
TradeShapes ==
  {<< <<TradeItem("wheat", 1)>>, <<TradeItem("wood", 1)>> >>,
   << <<TradeItem("wheat", 1), TradeItem("wheat", 1)>>, <<>> >>,
   << <<>>, <<TradeItem("wood", 1)>> >>}

\* proposals validate() rejects: nothing to trade, a quantity of zero
BadShapes ==
  {<< <<>>, <<>> >>, << <<TradeItem("wheat", 0)>>, <<>> >>}

VARIABLES
  agents,          \* AgentManager._agents: the ids registered
  location,        \* AgentState.location of each agent
  inventory,       \* AgentState.inventory of each agent (0: item absent)
  pending_trades,  \* ActionInterpreter._pending_trades
  skills,          \* AgentState.skills of each agent (0: skill absent)
  richness,        \* LocationNode.resource_richness of each node, as it is now
  outcome,         \* what the last call returned: an ActionOutcome's result and
                   \* message, cancel's True/False, the sweep's count
  current_tick,    \* TickEngine._current_tick
  running,         \* TickEngine._running
  paused,          \* TickEngine._paused
  tick_history,    \* TickEngine._tick_history
  agent_order_seed, \* TickEngine.agent_order_seed: <<>> for None, <<s>> for s
  hooks,           \* the callbacks registered with the engine: the
                   \* InventoryDecayHook (after_tick), and under a hook name
                   \* a callback that raises when it is called
  action_provider, \* TickEngine.action_provider: the script it follows
  pc,              \* "run" while a call of TickEngine.run is in its loop
  ticks_run,       \* run's local ticks_run
  num_ticks,       \* run's argument num_ticks
  stats_list,      \* run's local stats_list, the list it returns
  first_run,       \* what an earlier engine built from the same agents and
                   \* world returned and left
  scheduled_events, \* TickEngine._scheduled_events, in the order of the list
  stop_condition,  \* run's argument stop_condition: the predicate it names
  trace,           \* history: what the last execute_tick called, in the order
                   \* of the calls, each with _current_tick as it was then
  engines,         \* two TickEngines side by side, each over an AgentManager
                   \* of its own: seed, tick, the ids in the order they were
                   \* spawned, and the order of the last tick
  rate_limiter,    \* the RateLimiter of the LLMActionProvider, its fields
  success_run,     \* history: for each agent, the successes recorded since
                   \* its last recorded error
  hook_lists,      \* LifecycleHookManager._hooks: the list of each phase
  registered,      \* history: the hooks of each phase's list, in the order
                   \* they were registered
  execution_history, \* LifecycleHookManager._execution_history
  timers           \* the RateLimiter's times: time.time() as it is now, each
                   \* agent's cooldown_until and last_request_time,
                   \* _last_global_request, max_cooldown as constructed, and
                   \* the last call made on the limiter with what it returned

ivars == <<agents, location, inventory, pending_trades, skills, richness,
           outcome>>
tvars == <<scheduled_events, stop_condition, trace>>
evars == <<current_tick, running, paused, tick_history, agent_order_seed, hooks,
           action_provider, pc, ticks_run, num_ticks, stats_list, first_run,
           tvars>>
hvars == <<hook_lists, registered, execution_history>>
xvars == <<engines, rate_limiter, success_run, hvars, timers>>
vars == <<ivars, evars, xvars>>

(***************************************************************************)
(* AgentState and AgentManager.                                            *)
(***************************************************************************)
RECURSIVE SumItems(_, _)
SumItems(inv, S) ==
  IF S = {} THEN 0
  ELSE LET i == CHOOSE x \in S : TRUE IN inv[i] + SumItems(inv, S \ {i})

\* AgentState.inventory_count
inventory_count(inv, a) == SumItems(inv[a], Items)

\* AgentState.inventory_space
inventory_space(inv, a) == capacity[a] - inventory_count(inv, a)

\* update_agent_inventory without its capacity test (lines 85-86)
update_ignoring_capacity(inv, a, item, delta) ==
  inv[a][item] + delta >= 0

\* update_agent_inventory without its test for a negative count (lines 82-83)
update_ignoring_floor(inv, a, item, delta) ==
  ~(delta > 0 /\ inventory_space(inv, a) < delta)

\* AgentManager.update_agent_inventory: its return value
update_agent_inventory_ok(inv, a, item, delta) ==
  /\ inv[a][item] + delta >= 0
  /\ ~(delta > 0 /\ inventory_space(inv, a) < delta)

\* AgentManager.update_agent_inventory: the inventories after the call
update_agent_inventory(inv, a, item, delta) ==
  IF update_agent_inventory_ok(inv, a, item, delta)
  THEN [inv EXCEPT ![a][item] = @ + delta]
  ELSE inv

(***************************************************************************)
(* Actions (action_schema.py) and their validate().                        *)
(***************************************************************************)
MoveAction(a, d) ==
  [action_type |-> "MOVE", agent_id |-> a, destination |-> d]
HarvestAction(a, r, n) ==
  [action_type |-> "HARVEST", agent_id |-> a, resource_type |-> r, amount |-> n]
CraftAction(a, r, q) ==
  [action_type |-> "CRAFT", agent_id |-> a, recipe_id |-> r, quantity |-> q]
MessageAction(a, r, ch, c) ==
  [action_type |-> "MESSAGE", agent_id |-> a, recipient_id |-> r,
   channel |-> ch, content |-> c]
TradeProposalAction(a, t, off, req, p, ts) ==
  [action_type |-> "TRADE_PROPOSAL", agent_id |-> a, target_agent_id |-> t,
   offered_items |-> off, requested_items |-> req, proposal_id |-> p,
   timestamp |-> ts]
AcceptTradeAction(a, p, acc) ==
  [action_type |-> "ACCEPT_TRADE", agent_id |-> a, proposal_id |-> p,
   accept |-> acc]
GroupAction(a, gt, g) ==
  [action_type |-> "GROUP_ACTION", agent_id |-> a, group_action_type |-> gt,
   group_id |-> g]
IdleAction(a, r) ==
  [action_type |-> "IDLE", agent_id |-> a, reason |-> r]

\* a Harvest whose amount is a str: validate()'s "self.amount <= 0" raises
\* TypeError
HarvestOfStr(a) ==
  [raises_in |-> "validate",
   error |-> "'<=' not supported between instances of 'str' and 'int'"]
    @@ HarvestAction(a, "wheat", 1)

\* a Move whose destination is a list: validate() passes it and the
\* handler's nodes.get(destination) raises TypeError
MoveToList(a) ==
  [raises_in |-> "handler", error |-> "unhashable type: 'list'"]
    @@ MoveAction(a, "farm")

Err(cond, msg) == IF cond THEN <<msg>> ELSE <<>>

RECURSIVE QuantityErrors(_, _)
QuantityErrors(items, msg) ==
  IF items = <<>> THEN <<>>
  ELSE Err(Head(items).quantity <= 0, msg) \o QuantityErrors(Tail(items), msg)

valid_channels ==
  {"direct", "location", "global", "broadcast", "group", "trade", "governance"}

\* <Variant>.validate(): the list of violated preconditions
validate(action) ==
  Err(action.agent_id = "", "agent_id is required") \o
  CASE action.action_type = "MOVE" ->
         Err(action.destination = "", "destination is required")
    [] action.action_type = "HARVEST" ->
         Err(action.resource_type = "", "resource_type is required") \o
         Err(action.amount <= 0, "amount must be positive")
    [] action.action_type = "CRAFT" ->
         Err(action.recipe_id = "", "recipe_id is required") \o
         Err(action.quantity <= 0, "quantity must be positive")
    [] action.action_type = "MESSAGE" ->
         Err(action.content = "", "content is required") \o
         Err(action.channel \notin valid_channels, "invalid channel") \o
         Err(action.channel = "direct" /\ action.recipient_id = "",
             "recipient_id is required for direct MESSAGE")
    [] action.action_type = "TRADE_PROPOSAL" ->
         Err(action.target_agent_id = "", "target_agent_id is required") \o
         Err(action.agent_id = action.target_agent_id, "cannot trade with self") \o
         Err(action.offered_items = <<>> /\ action.requested_items = <<>>,
             "trade must include offered or requested items") \o
         QuantityErrors(action.offered_items, "offered item quantity must be positive") \o
         QuantityErrors(action.requested_items, "requested item quantity must be positive")
    [] action.action_type = "ACCEPT_TRADE" ->
         Err(action.proposal_id = "", "proposal_id is required")
    [] action.action_type = "GROUP_ACTION" ->
         Err(action.group_action_type # "FORM_GROUP" /\ action.group_id = "",
             "group_id required")
    [] action.action_type = "IDLE" -> <<>>

(***************************************************************************)
(* The Action Interpreter's handlers, as functions of the state they read  *)
(* (st: agents, location, inventory, pending_trades) that return the state *)
(* they leave and the outcome's result.                                    *)
(***************************************************************************)
Out(st, result, message) == [st |-> st, result |-> result, message |-> message]

\* AgentManager.get_agent(agent_id) is not None
get_agent(st, agent_id) == agent_id \in st.agents

\* _handle_move without the neighbor and travel-cost tests (lines 105-120)
handle_move_anywhere(st, action) ==
  IF ~get_agent(st, action.agent_id) THEN Out(st, "FAILURE", "Agent not found")
  ELSE IF ~get_node(action.destination) THEN Out(st, "FAILURE", "Destination not found")
  ELSE Out([st EXCEPT !.location[action.agent_id] = action.destination],
           "SUCCESS", "Moved")

\* _handle_move that relocates the agent before it tests for a path
handle_move_before_test(st, action) ==
  IF ~get_agent(st, action.agent_id) THEN Out(st, "FAILURE", "Agent not found")
  ELSE IF ~get_node(action.destination) THEN Out(st, "FAILURE", "Destination not found")
  ELSE LET current_location == st.location[action.agent_id]
           moved == [st EXCEPT !.location[action.agent_id] = action.destination]
       IN  IF /\ current_location # "" /\ current_location # action.destination
              /\ action.destination \notin get_neighbors(current_location)
           THEN Out(moved, "FAILURE", "No path")
           ELSE Out(moved, "SUCCESS", "Moved")

\* ActionInterpreter._handle_move
handle_move(st, action) ==
  LET current_location == IF get_agent(st, action.agent_id)
                          THEN st.location[action.agent_id] ELSE ""
      destination == action.destination
  IN  IF ~get_agent(st, action.agent_id) THEN Out(st, "FAILURE", "Agent not found")
      ELSE IF ~get_node(destination) THEN Out(st, "FAILURE", "Destination not found")
      ELSE IF /\ current_location # "" /\ current_location # destination
              /\ destination \notin get_neighbors(current_location)
           THEN Out(st, "FAILURE", "No path")
      ELSE IF /\ current_location # "" /\ current_location # destination
              /\ ~travel_cost_finite(current_location, destination)
           THEN Out(st, "FAILURE", "Path blocked")
      ELSE Out([st EXCEPT !.location[action.agent_id] = destination],
               "SUCCESS", "Moved")

Min(x, y) == IF x <= y THEN x ELSE y

\* the amount _handle_harvest adds (lines 161-170) once the resource is there
harvest_actual_amount(st, action) ==
  IF inventory_space(st.inventory, action.agent_id) < action.amount
  THEN inventory_space(st.inventory, action.agent_id)
  ELSE Min(action.amount,
           st.richness[st.location[action.agent_id]][action.resource_type])

\* _handle_harvest taking what it adds out of the node's richness
handle_harvest_depleting(st, action) ==
  IF ~get_agent(st, action.agent_id) THEN Out(st, "FAILURE", "Agent not found")
  ELSE IF ~get_node(st.location[action.agent_id])
       THEN Out(st, "FAILURE", "Agent not at valid location")
  ELSE IF \/ action.resource_type \notin Items
          \/ st.richness[st.location[action.agent_id]][action.resource_type] <= 0
       THEN Out(st, "FAILURE", "Resource not available")
  ELSE LET actual_amount == harvest_actual_amount(st, action)
           left == st.richness[st.location[action.agent_id]][action.resource_type]
                     - actual_amount
       IN  IF actual_amount <= 0 THEN Out(st, "FAILURE", "Inventory full")
           ELSE Out([st EXCEPT
                       !.inventory =
                          update_agent_inventory(st.inventory, action.agent_id,
                                                 action.resource_type, actual_amount),
                       !.richness[st.location[action.agent_id]][action.resource_type] =
                          IF left < 0 THEN 0 ELSE left],
                    IF actual_amount = action.amount THEN "SUCCESS" ELSE "PARTIAL",
                    "Harvested")

\* ActionInterpreter._handle_harvest
handle_harvest(st, action) ==
  IF ~get_agent(st, action.agent_id) THEN Out(st, "FAILURE", "Agent not found")
  ELSE IF ~get_node(st.location[action.agent_id])
       THEN Out(st, "FAILURE", "Agent not at valid location")
  ELSE IF \/ action.resource_type \notin Items
          \/ st.richness[st.location[action.agent_id]][action.resource_type] <= 0
       THEN Out(st, "FAILURE", "Resource not available")
  ELSE LET actual_amount == harvest_actual_amount(st, action)
       IN  IF actual_amount <= 0 THEN Out(st, "FAILURE", "Inventory full")
           ELSE IF ~update_agent_inventory_ok(st.inventory, action.agent_id,
                                              action.resource_type, actual_amount)
                THEN Out(st, "FAILURE", "Failed to update inventory")
           ELSE Out([st EXCEPT !.inventory =
                        update_agent_inventory(st.inventory, action.agent_id,
                                               action.resource_type, actual_amount)],
                    IF actual_amount = action.amount THEN "SUCCESS" ELSE "PARTIAL",
                    "Harvested")

\* one pass of "for item, count in d.items(): update_agent_inventory(...)"
RECURSIVE UpdateEach(_, _, _, _, _)
UpdateEach(inv, a, counts, sign, S) ==
  IF S = {} THEN inv
  ELSE LET i == CHOOSE x \in S : TRUE
       IN  UpdateEach(IF counts[i] = 0 THEN inv
                      ELSE update_agent_inventory(inv, a, i, sign * counts[i]),
                      a, counts, sign, S \ {i})

\* update_agent_skill that adds the recipe's gain once, whatever the quantity
update_agent_skill_unscaled(sk, a, skill, delta) ==
  [sk EXCEPT ![a][skill] = @ + 1]

\* AgentManager.update_agent_skill: max(0.0, current + delta)
update_agent_skill(sk, a, skill, delta) ==
  [sk EXCEPT ![a][skill] = IF @ + delta < 0 THEN 0 ELSE @ + delta]

\* "for skill, gain in skill_gain.items(): update_agent_skill(...)"
RECURSIVE GainEach(_, _, _, _, _)
GainEach(sk, a, gains, quantity, S) ==
  IF S = {} THEN sk
  ELSE LET k == CHOOSE x \in S : TRUE
       IN  GainEach(IF gains[k] = 0 THEN sk
                    ELSE update_agent_skill(sk, a, k, gains[k] * quantity),
                    a, gains, quantity, S \ {k})

\* ActionInterpreter._handle_craft
handle_craft(st, action) ==
  IF ~get_agent(st, action.agent_id) THEN Out(st, "FAILURE", "Agent not found")
  ELSE IF action.recipe_id \notin DOMAIN crafting_rules
       THEN Out(st, "FAILURE", "Unknown recipe")
  ELSE LET recipe == crafting_rules[action.recipe_id]
           inputs == [i \in Items |-> recipe.inputs[i] * action.quantity]
           outputs == [i \in Items |-> recipe.outputs[i] * action.quantity]
           net_change == SumItems(outputs, Items) - SumItems(inputs, Items)
       IN  IF \E i \in Items : st.inventory[action.agent_id][i] < inputs[i]
           THEN Out(st, "FAILURE", "Insufficient input")
           ELSE IF /\ net_change > 0
                   /\ inventory_space(st.inventory, action.agent_id) < net_change
                THEN Out(st, "FAILURE", "Insufficient inventory space")
           ELSE [state_changes |-> [inputs_consumed |-> inputs,
                                    outputs_produced |-> outputs]]
                @@ Out([st EXCEPT
                          !.inventory =
                             UpdateEach(UpdateEach(st.inventory, action.agent_id,
                                                   inputs, -1, Items),
                                        action.agent_id, outputs, 1, Items),
                          !.skills =
                             GainEach(st.skills, action.agent_id,
                                      recipe.skill_gain, action.quantity, Skills)],
                       "SUCCESS", "Crafted")

\* ActionInterpreter._handle_message
handle_message(st, action) ==
  IF ~get_agent(st, action.agent_id) THEN Out(st, "FAILURE", "Agent not found")
  ELSE IF /\ action.channel = "direct" /\ action.recipient_id # ""
          /\ ~get_agent(st, action.recipient_id)
       THEN Out(st, "FAILURE", "Recipient not found")
  ELSE Out(st, "SUCCESS", "Message queued")

\* the holdings test left out
holds_unchecked(inv, a, items) == TRUE

\* "for item in items: if holder.inventory.get(item_type, 0) < quantity: return"
RECURSIVE HoldsAll(_, _, _)
HoldsAll(inv, a, items) ==
  IF items = <<>> THEN TRUE
  ELSE /\ inv[a][Head(items).item_type] >= Head(items).quantity
       /\ HoldsAll(inv, a, Tail(items))

\* ActionInterpreter._handle_trade_proposal
handle_trade_proposal(st, action) ==
  IF ~get_agent(st, action.agent_id) THEN Out(st, "FAILURE", "Agent not found")
  ELSE IF ~get_agent(st, action.target_agent_id)
       THEN Out(st, "FAILURE", "Target agent not found")
  ELSE IF ~HoldsAll(st.inventory, action.agent_id, action.offered_items)
       THEN Out(st, "FAILURE", "Insufficient to offer")
  ELSE Out([st EXCEPT !.pending_trades[action.proposal_id] =
              [proposer_id |-> action.agent_id,
               target_id |-> action.target_agent_id,
               offered_items |-> action.offered_items,
               requested_items |-> action.requested_items,
               timestamp |-> action.timestamp]],
           "SUCCESS", "Trade proposal created")

\* lines 394-400: for each item, deduct from the giver, then add to the taker;
\* neither call's return value is read
RECURSIVE transfer_items(_, _, _, _)
transfer_items(inv, giver, taker, items) ==
  IF items = <<>> THEN inv
  ELSE LET it == Head(items)
           deducted == update_agent_inventory(inv, giver, it.item_type, -it.quantity)
           added == update_agent_inventory(deducted, taker, it.item_type, it.quantity)
       IN  transfer_items(added, giver, taker, Tail(items))

\* the whole ledger cleared in place of one entry
clear_pending_trades(st, proposal_id) ==
  [st EXCEPT !.pending_trades = [p \in LedgerKeys |-> NoTrade]]

\* the entry left in the ledger
keep_pending_trade(st, proposal_id) == st

\* "del self._pending_trades[proposal_id]"
del_pending_trade(st, proposal_id) ==
  [st EXCEPT !.pending_trades[proposal_id] = NoTrade]

\* ActionInterpreter._handle_accept_trade
handle_accept_trade(st, action) ==
  LET proposal == st.pending_trades[action.proposal_id]
  IN  IF proposal = NoTrade THEN Out(st, "FAILURE", "Trade proposal not found")
      ELSE IF action.agent_id # proposal.target_id
           THEN Out(st, "FAILURE", "Only the target can respond")
      ELSE IF ~action.accept
           THEN Out(del_pending_trade(st, action.proposal_id), "SUCCESS", "Trade rejected")
      ELSE IF ~get_agent(st, proposal.proposer_id) \/ ~get_agent(st, proposal.target_id)
           THEN Out(del_pending_trade(st, action.proposal_id), "FAILURE",
                    "One or both trade parties no longer exist")
      ELSE IF ~HoldsAll(st.inventory, proposal.proposer_id, proposal.offered_items)
           THEN Out(del_pending_trade(st, action.proposal_id), "FAILURE",
                    "Proposer no longer has sufficient")
      ELSE IF ~HoldsAll(st.inventory, proposal.target_id, proposal.requested_items)
           THEN Out(del_pending_trade(st, action.proposal_id), "FAILURE",
                    "Target no longer has sufficient")
      ELSE Out([del_pending_trade(st, action.proposal_id) EXCEPT !.inventory =
                  transfer_items(
                    transfer_items(st.inventory, proposal.proposer_id,
                                   proposal.target_id, proposal.offered_items),
                    proposal.target_id, proposal.proposer_id,
                    proposal.requested_items)],
               "SUCCESS", "Trade completed")

\* ActionInterpreter._handle_group_action
handle_group_action(st, action) ==
  IF ~get_agent(st, action.agent_id) THEN Out(st, "FAILURE", "Agent not found")
  ELSE Out(st, "SUCCESS", "Group action queued")

\* ActionInterpreter._handle_idle
handle_idle(st, action) ==
  IF ~get_agent(st, action.agent_id) THEN Out(st, "FAILURE", "Agent not found")
  ELSE Out(st, "SUCCESS", "Agent idle")

\* the action carries a field of a type its variant does not expect, and
\* processing it raises in validate() or in the handler
Raises(action, where) ==
  "raises_in" \in DOMAIN action /\ action.raises_in = where

\* execute that hands the action to its handler without validating it
execute_unvalidated(st, action) ==
  CASE action.action_type = "MOVE" -> handle_move(st, action)
    [] action.action_type = "HARVEST" -> handle_harvest(st, action)
    [] action.action_type = "CRAFT" -> handle_craft(st, action)
    [] action.action_type = "MESSAGE" -> handle_message(st, action)
    [] action.action_type = "TRADE_PROPOSAL" -> handle_trade_proposal(st, action)
    [] action.action_type = "ACCEPT_TRADE" -> handle_accept_trade(st, action)
    [] action.action_type = "GROUP_ACTION" -> handle_group_action(st, action)
    [] action.action_type = "IDLE" -> handle_idle(st, action)

\* ActionInterpreter.execute.  validate_action is called outside the try
\* block (line 57): what it raises leaves execute, result "RAISED" here, with
\* nothing changed.  What the handler raises is caught (lines 73-80) and comes
\* back as FAILURE with "Handler error: " and the exception's message.
execute(st, action) ==
  IF Raises(action, "validate") THEN Out(st, "RAISED", action.error)
  ELSE IF validate(action) # <<>> THEN Out(st, "INVALID", "Validation errors")
  ELSE IF Raises(action, "handler") THEN Out(st, "FAILURE", action.error)
  ELSE CASE action.action_type = "MOVE" -> handle_move(st, action)
         [] action.action_type = "HARVEST" -> handle_harvest(st, action)
         [] action.action_type = "CRAFT" -> handle_craft(st, action)
         [] action.action_type = "MESSAGE" -> handle_message(st, action)
         [] action.action_type = "TRADE_PROPOSAL" -> handle_trade_proposal(st, action)
         [] action.action_type = "ACCEPT_TRADE" -> handle_accept_trade(st, action)
         [] action.action_type = "GROUP_ACTION" -> handle_group_action(st, action)
         [] action.action_type = "IDLE" -> handle_idle(st, action)

(***************************************************************************)
(* The interpreter as a state machine: one action per action variant and   *)
(* per maintenance operation, each a whole call.                           *)
(***************************************************************************)
State ==
  [agents |-> agents, location |-> location, inventory |-> inventory,
   pending_trades |-> pending_trades, skills |-> skills,
   richness |-> richness]

\* the ActionOutcome execute(action) returns
Outcome(action, r) ==
  [type |-> action.action_type, result |-> r.result, message |-> r.message,
   count |-> 0]

\* the step "execute(action) is called and returns", as a relation on states
Executes(action) ==
  LET r == execute(State, action)
  IN  /\ agents' = r.st.agents
      /\ location' = r.st.location
      /\ inventory' = r.st.inventory
      /\ pending_trades' = r.st.pending_trades
      /\ skills' = r.st.skills
      /\ richness' = r.st.richness
      /\ outcome' = Outcome(action, r)

Inventories(a) ==
  {inv \in [Items -> 0..capacity[a]] : SumItems(inv, Items) <= capacity[a]}

NoInventory == [i \in Items |-> 0]
\* AgentState.skills as spawned: {}
NoSkill == [k \in Skills |-> 0]
NoSkills == [a \in Agents |-> NoSkill]
NoInventories == [a \in Agents |-> NoInventory]

\* the record of an earlier run, before there is one: the inventories the
\* agents were spawned with, and nothing returned
NotRun(inv) ==
  [finished |-> FALSE, initial |-> inv, stats |-> <<>>,
   agents |-> Agents, location |-> [a \in Agents |-> ""], inventory |-> inv]

\* RateLimiter.mandatory_rest_interval as the model configures it
RestInterval == 2
\* RateLimiter._error_threshold_for_night
error_threshold_for_night == 3
\* the default of trigger_night_mode's duration_ticks
night_duration_default == 5

\* AgentCooldown(): the counters of an agent the limiter has not seen
AgentCooldown ==
  [consecutive_errors |-> 0, total_requests |-> 0, successful_requests |-> 0]

\* RateLimiter.__init__
RateLimiterInit(enable, interval) ==
  [enable_mandatory_rest |-> enable,
   mandatory_rest_interval |-> interval,
   agent_cooldowns |-> [a \in Agents |-> AgentCooldown],
   resting_agents |-> {},
   current_tick |-> 0,
   is_night |-> FALSE,
   night_start_tick |-> 0,
   night_duration_ticks |-> night_duration_default,
   error_count_this_tick |-> 0]

\* no success recorded for anyone
NoRuns == [a \in Agents |-> 0]

\* RateLimiter.BACKOFF_MULTIPLIER
BACKOFF_MULTIPLIER == 2
\* the largest power of it record_request_error raises it to
max_backoff_power == 5
\* base_cooldown, min_request_interval and global_min_interval as the model
\* constructs the limiter, in the unit the model counts time in
base_cooldown == 1
min_request_interval == 2
global_min_interval == 1
\* the two max_cooldown the model constructs it with: one the doubling
\* reaches before the power is capped, one it does not reach
SmallMaxCooldown == 4
LargeMaxCooldown == 40
\* time.time() when the limiter is constructed: further from the 0.0 of
\* last_request_time and _last_global_request than either interval
StartTime == min_request_interval + global_min_interval

\* no call made on the limiter yet
NoCall == [name |-> "none", agent_id |-> "", text |-> <<>>, returned |-> 0]

\* the times of RateLimiter.__init__ and AgentCooldown(), and the errors
\* recorded for each agent since its last success (history)
TimersInit(max_cooldown) ==
  [now |-> StartTime,
   max_cooldown |-> max_cooldown,
   cooldown_until |-> [a \in Agents |-> 0],
   last_request_time |-> [a \in Agents |-> 0],
   last_global_request |-> 0,
   errors_since_success |-> [a \in Agents |-> 0],
   call |-> NoCall]

\* the limiter and its history where no provider uses them
LimiterIdle ==
  /\ rate_limiter = RateLimiterInit(TRUE, RestInterval)
  /\ success_run = NoRuns
  /\ timers = TimersInit(LargeMaxCooldown)

\* the engines of the side-by-side comparison
EngineIds == 1..2

\* a TickEngine over an empty AgentManager, no tick executed yet
NewEngine(seed) ==
  [agent_order_seed |-> seed, current_tick |-> 0, agent_ids |-> <<>>,
   visited |-> <<>>]

\* the phases hooks are registered for in the model
HookPhases == {"BEFORE_TICK", "AFTER_TICK"}

\* LifecycleHookManager.__init__
HookManagerInit ==
  /\ hook_lists = [phase \in HookPhases |-> <<>>]
  /\ registered = [phase \in HookPhases |-> <<>>]
  /\ execution_history = <<>>

\* TickEngine.__init__, then the configuration the runner applies to it, and
\* the LifecycleHookManager built beside the engine
TickEngineInit(seed, installed, provider) ==
  /\ HookManagerInit
  /\ current_tick = 0
  /\ running = FALSE
  /\ paused = FALSE
  /\ tick_history = <<>>
  /\ agent_order_seed = seed
  /\ hooks = installed
  /\ action_provider = provider
  /\ pc = "idle"
  /\ ticks_run = 0
  /\ num_ticks = 0
  /\ stats_list = <<>>
  /\ scheduled_events = <<>>
  /\ stop_condition = "none"
  /\ trace = <<>>

\* AgentManager, LocationGraph and ActionInterpreter as constructed
WorldInit(inv) ==
  /\ agents = Agents
  /\ location = [a \in Agents |-> ""]
  /\ inventory = inv
  /\ pending_trades = [p \in LedgerKeys |-> NoTrade]
  /\ skills = NoSkills
  /\ richness = resource_richness
  /\ outcome = [type |-> "NONE", result |-> "NONE", message |-> "", count |-> 0]

\* the interpreter under an engine that is built and never started
Init ==
  /\ \E inv \in {w \in [Agents -> [Items -> 0..MaxCap]] :
                    \A a \in Agents : w[a] \in Inventories(a)} : WorldInit(inv)
  /\ TickEngineInit(<<>>, {}, "idle")
  /\ first_run = NotRun(NoInventories)
  /\ engines = [e \in EngineIds |-> NewEngine(<<>>)]
  /\ LimiterIdle

\* the actions the decision source submits: every agent with every field
\* value, and the degenerate ones (an unknown agent, an empty field) once
MoveActions ==
  {MoveAction(a, d) : a \in Agents, d \in Destinations}
    \cup {MoveAction("ghost", "farm"), MoveAction("", "farm")}

HarvestActions ==
  {HarvestAction(a, r, n) : a \in Agents, r \in Items, n \in 1..MaxAmount}
    \cup {HarvestAction("ghost", "wheat", 1), HarvestAction("a", "", 1),
          HarvestAction("a", "wheat", 0), HarvestAction("a", "stone", 1)}

CraftActions ==
  {CraftAction(a, "thresh", 1) : a \in Agents}
    \cup {CraftAction("ghost", "thresh", 1), CraftAction("a", "none", 1),
          CraftAction("a", "", 1), CraftAction("a", "thresh", 0)}

MessageActions ==
  {MessageAction("a", "b", "direct", "hi"), MessageAction("a", "ghost", "direct", "hi"),
   MessageAction("b", "", "global", "hi"), MessageAction("ghost", "a", "direct", "hi"),
   MessageAction("a", "", "direct", "hi"), MessageAction("a", "b", "shout", ""),
   MessageAction("a", "b", "direct", "")}

\* (proposer, target) of the proposals the model submits
Parties == {pt \in Agents \X Agents : pt[1] # pt[2]}

BadProposals ==
  {TradeProposalAction("a", "b", sh[1], sh[2], "p1", 0) : sh \in BadShapes}
    \cup {TradeProposalAction("a", "a", <<TradeItem("wheat", 1)>>, <<>>, "p1", 0),
          TradeProposalAction("a", "ghost", <<TradeItem("wheat", 1)>>, <<>>, "p1", 0),
          TradeProposalAction("ghost", "a", <<TradeItem("wheat", 1)>>, <<>>, "p1", 0),
          TradeProposalAction("", "", <<>>, <<>>, "p1", 0)}

\* the interpreter's specification submits proposals under one id and one time
TradeProposalActions ==
  {TradeProposalAction(pt[1], pt[2], sh[1], sh[2], "p1", 0) :
      pt \in Parties, sh \in TradeShapes}
    \cup BadProposals

AcceptTradeActions ==
  {AcceptTradeAction(a, "p1", acc) : a \in Agents, acc \in BOOLEAN}
    \cup {AcceptTradeAction("ghost", "p1", TRUE), AcceptTradeAction("a", "", TRUE),
          AcceptTradeAction("", "p1", FALSE)}

GroupActions ==
  {GroupAction("a", "FORM_GROUP", ""), GroupAction("b", "JOIN_GROUP", "g1"),
   GroupAction("a", "JOIN_GROUP", ""), GroupAction("ghost", "VOTE", "g1")}

IdleActions == {IdleAction(a, "") : a \in AgentIds}

Move ==
  \E action \in MoveActions :
     LET r == execute(State, action)
     IN  /\ agents' = r.st.agents
         /\ location' = r.st.location
         /\ inventory' = r.st.inventory
         /\ pending_trades' = r.st.pending_trades
         /\ skills' = r.st.skills
         /\ richness' = r.st.richness
         /\ outcome' = Outcome(action, r)
         /\ UNCHANGED <<evars, xvars>>

Harvest ==
  \E action \in HarvestActions :
     LET r == execute(State, action)
     IN  /\ agents' = r.st.agents
         /\ location' = r.st.location
         /\ inventory' = r.st.inventory
         /\ pending_trades' = r.st.pending_trades
         /\ skills' = r.st.skills
         /\ richness' = r.st.richness
         /\ outcome' = Outcome(action, r)
         /\ UNCHANGED <<evars, xvars>>

Craft ==
  \E action \in CraftActions :
     LET r == execute(State, action)
     IN  /\ agents' = r.st.agents
         /\ location' = r.st.location
         /\ inventory' = r.st.inventory
         /\ pending_trades' = r.st.pending_trades
         /\ skills' = r.st.skills
         /\ richness' = r.st.richness
         /\ outcome' = Outcome(action, r)
         /\ UNCHANGED <<evars, xvars>>

Message ==
  \E action \in MessageActions :
     LET r == execute(State, action)
     IN  /\ agents' = r.st.agents
         /\ location' = r.st.location
         /\ inventory' = r.st.inventory
         /\ pending_trades' = r.st.pending_trades
         /\ skills' = r.st.skills
         /\ richness' = r.st.richness
         /\ outcome' = Outcome(action, r)
         /\ UNCHANGED <<evars, xvars>>

TradeProposal ==
  \E action \in TradeProposalActions :
     LET r == execute(State, action)
     IN  /\ agents' = r.st.agents
         /\ location' = r.st.location
         /\ inventory' = r.st.inventory
         /\ pending_trades' = r.st.pending_trades
         /\ skills' = r.st.skills
         /\ richness' = r.st.richness
         /\ outcome' = Outcome(action, r)
         /\ UNCHANGED <<evars, xvars>>

AcceptTrade ==
  \E action \in AcceptTradeActions :
     LET r == execute(State, action)
     IN  /\ agents' = r.st.agents
         /\ location' = r.st.location
         /\ inventory' = r.st.inventory
         /\ pending_trades' = r.st.pending_trades
         /\ skills' = r.st.skills
         /\ richness' = r.st.richness
         /\ outcome' = Outcome(action, r)
         /\ UNCHANGED <<evars, xvars>>

GroupActionStep ==
  \E action \in GroupActions :
     LET r == execute(State, action)
     IN  /\ agents' = r.st.agents
         /\ location' = r.st.location
         /\ inventory' = r.st.inventory
         /\ pending_trades' = r.st.pending_trades
         /\ skills' = r.st.skills
         /\ richness' = r.st.richness
         /\ outcome' = Outcome(action, r)
         /\ UNCHANGED <<evars, xvars>>

Idle ==
  \E action \in IdleActions :
     LET r == execute(State, action)
     IN  /\ agents' = r.st.agents
         /\ location' = r.st.location
         /\ inventory' = r.st.inventory
         /\ pending_trades' = r.st.pending_trades
         /\ skills' = r.st.skills
         /\ richness' = r.st.richness
         /\ outcome' = Outcome(action, r)
         /\ UNCHANGED <<evars, xvars>>


\* ActionInterpreter.cancel_pending_trade(p)
cancel(p) ==
  /\ pending_trades' = [pending_trades EXCEPT ![p] = NoTrade]
  /\ outcome' = [type |-> "CANCEL",
                 result |-> IF pending_trades[p] # NoTrade THEN "TRUE" ELSE "FALSE",
                 message |-> "", count |-> 0]
  /\ UNCHANGED <<agents, location, inventory, skills, richness>>
  /\ UNCHANGED <<evars, xvars>>

\* the proposal ids clear_expired_trades collects
expired(trades, current_time, max_age) ==
  {p \in LedgerKeys :
     trades[p] # NoTrade /\ current_time - trades[p].timestamp > max_age}

\* ActionInterpreter.clear_expired_trades(current_time, max_age)
clear_expired(current_time, max_age) ==
  /\ pending_trades' =
       [p \in LedgerKeys |->
          IF p \in expired(pending_trades, current_time, max_age)
          THEN NoTrade ELSE pending_trades[p]]
  /\ outcome' = [type |-> "EXPIRE",
                 result |-> "SWEPT", message |-> "",
                 count |-> Cardinality(expired(pending_trades, current_time, max_age))]
  /\ UNCHANGED <<agents, location, inventory, skills, richness>>
  /\ UNCHANGED <<evars, xvars>>

cancel_pending_trade == \E p \in ProposalIds : cancel(p)

\* the sweep runs with a max_age of one time unit
clear_expired_trades == \E current_time \in 0..(MaxTime + 2) : clear_expired(current_time, 1)

\* AgentManager.remove_agent: the external registry destroys an agent
remove_agent ==
  \E a \in Agents :
     /\ a \in agents
     /\ agents' = agents \ {a}
     /\ location' = [location EXCEPT ![a] = ""]
     /\ inventory' = [inventory EXCEPT ![a] = NoInventory]
     /\ outcome' = [type |-> "REMOVE", result |-> "TRUE", message |-> "", count |-> 0]
     /\ skills' = [skills EXCEPT ![a] = NoSkill]
     /\ UNCHANGED <<pending_trades, richness>>
     /\ UNCHANGED <<evars, xvars>>

Next ==
  \/ Move
  \/ Harvest
  \/ Craft
  \/ Message
  \/ TradeProposal
  \/ AcceptTrade
  \/ GroupActionStep
  \/ Idle
  \/ cancel_pending_trade
  \/ clear_expired_trades
  \/ remove_agent

Spec == Init /\ [][Next]_vars

(***************************************************************************)
(* The settlement protocol on its own: proposals under two ids and at two  *)
(* times, between agents that stay where they are.                         *)
(***************************************************************************)
\* the exchange and the offer that lists the same item twice
LedgerShapes == {sh \in TradeShapes : sh[1] # <<>>}

LedgerProposalActions ==
  {TradeProposalAction(pt[1], pt[2], sh[1], sh[2], p, ts) :
      pt \in Parties, sh \in LedgerShapes, p \in ProposalIds, ts \in {0, MaxTime}}
    \cup BadProposals

LedgerCraftActions == {CraftAction(a, "thresh", 1) : a \in Agents}

LedgerAcceptActions ==
  {AcceptTradeAction(a, p, acc) : a \in Agents, p \in ProposalIds, acc \in BOOLEAN}
    \cup {AcceptTradeAction("ghost", "p1", TRUE), AcceptTradeAction("a", "", TRUE)}

LedgerPropose ==
  \E action \in LedgerProposalActions :
     LET r == execute(State, action)
     IN  /\ agents' = r.st.agents
         /\ location' = r.st.location
         /\ inventory' = r.st.inventory
         /\ pending_trades' = r.st.pending_trades
         /\ skills' = r.st.skills
         /\ richness' = r.st.richness
         /\ outcome' = Outcome(action, r)
         /\ UNCHANGED <<evars, xvars>>

LedgerAccept ==
  \E action \in LedgerAcceptActions :
     LET r == execute(State, action)
     IN  /\ agents' = r.st.agents
         /\ location' = r.st.location
         /\ inventory' = r.st.inventory
         /\ pending_trades' = r.st.pending_trades
         /\ skills' = r.st.skills
         /\ richness' = r.st.richness
         /\ outcome' = Outcome(action, r)
         /\ UNCHANGED <<evars, xvars>>

LedgerCraft ==
  \E action \in LedgerCraftActions :
     LET r == execute(State, action)
     IN  /\ agents' = r.st.agents
         /\ location' = r.st.location
         /\ inventory' = r.st.inventory
         /\ pending_trades' = r.st.pending_trades
         /\ skills' = r.st.skills
         /\ richness' = r.st.richness
         /\ outcome' = Outcome(action, r)
         /\ UNCHANGED <<evars, xvars>>

NextTrade ==
  \/ LedgerPropose
  \/ LedgerAccept
  \/ LedgerCraft
  \/ cancel_pending_trade
  \/ clear_expired_trades
  \/ remove_agent

SpecTrade == Init /\ [][NextTrade]_vars

(***************************************************************************)
(* The RateLimiter of the cognition layer.  Its wall-clock comparisons     *)
(* (time.time() against cooldown_until, last_request_time and              *)
(* _last_global_request) are inputs of the call that makes them.           *)
(***************************************************************************)
\* RateLimiter.set_tick
set_tick_keeps_night(rl, tick) ==
  IF tick # rl.current_tick
  THEN [rl EXCEPT !.current_tick = tick, !.error_count_this_tick = 0]
  ELSE rl

set_tick(rl, tick) ==
  IF tick # rl.current_tick
  THEN LET announced == [rl EXCEPT !.current_tick = tick,
                                   !.error_count_this_tick = 0]
       IN  IF rl.is_night /\ tick >= rl.night_start_tick + rl.night_duration_ticks
           THEN [announced EXCEPT !.is_night = FALSE, !.resting_agents = {}]
           ELSE announced
  ELSE rl

\* RateLimiter.is_night_mode
is_night_mode(rl) == rl.is_night

\* RateLimiter.trigger_night_mode
trigger_night_mode(rl, duration_ticks) ==
  [rl EXCEPT !.is_night = TRUE,
             !.night_start_tick = rl.current_tick,
             !.night_duration_ticks = duration_ticks,
             !.resting_agents = {}]

\* what the clock says at a can_make_request: the agent's cooldown_until is
\* ahead, its last request is less than min_request_interval ago, the last
\* request of anyone is less than global_min_interval ago
Clocks == [on_cooldown : BOOLEAN, too_soon : BOOLEAN, global_too_soon : BOOLEAN]

\* the reasons of a denial, up to the numbers they end with
NightReason == "Night mode active (rest period)"
CooldownReason == "Rate limited. Cooldown"
RestReason == "Mandatory rest period (preventing API overload)"
TooSoonReason == "Too soon since last request"
GlobalReason == "Global rate limit"

\* can_make_request without its test of the global interval
can_make_request_own_interval_only(rl, agent_id, clock) ==
  IF rl.is_night THEN <<FALSE, NightReason>>
  ELSE IF clock.on_cooldown THEN <<FALSE, CooldownReason>>
  ELSE IF agent_id \in rl.resting_agents THEN <<FALSE, RestReason>>
  ELSE IF clock.too_soon THEN <<FALSE, TooSoonReason>>
  ELSE <<TRUE, "">>

\* RateLimiter.can_make_request: the pair it returns
can_make_request(rl, agent_id, clock) ==
  IF rl.is_night THEN <<FALSE, NightReason>>
  ELSE IF clock.on_cooldown THEN <<FALSE, CooldownReason>>
  ELSE IF agent_id \in rl.resting_agents THEN <<FALSE, RestReason>>
  ELSE IF clock.too_soon THEN <<FALSE, TooSoonReason>>
  ELSE IF clock.global_too_soon THEN <<FALSE, GlobalReason>>
  ELSE <<TRUE, "">>

\* RateLimiter.record_request_start
record_request_start(rl, agent_id) ==
  [rl EXCEPT !.agent_cooldowns[agent_id].total_requests = @ + 1]

\* record_request_success that rests the agent on every success
record_request_success_always_rests(rl, agent_id) ==
  [rl EXCEPT !.agent_cooldowns[agent_id].consecutive_errors = 0,
             !.agent_cooldowns[agent_id].successful_requests = @ + 1,
             !.resting_agents = @ \cup {agent_id}]

\* RateLimiter.record_request_success
record_request_success(rl, agent_id) ==
  LET successful_requests ==
        rl.agent_cooldowns[agent_id].successful_requests + 1
      counted == [rl EXCEPT !.agent_cooldowns[agent_id].consecutive_errors = 0,
                            !.agent_cooldowns[agent_id].successful_requests =
                               successful_requests]
  IN  IF /\ rl.enable_mandatory_rest
         /\ successful_requests % rl.mandatory_rest_interval = 0
      THEN [counted EXCEPT !.resting_agents = @ \cup {agent_id}]
      ELSE counted

\* RateLimiter.record_request_error, the limiter it leaves (the cooldown it
\* returns and stores is a time)
record_request_error(rl, agent_id) ==
  LET counted == [rl EXCEPT !.agent_cooldowns[agent_id].consecutive_errors = @ + 1,
                            !.error_count_this_tick = @ + 1]
  IN  IF counted.error_count_this_tick >= error_threshold_for_night
      THEN trigger_night_mode(counted, night_duration_default)
      ELSE counted

(***************************************************************************)
(* The RateLimiter's times.  time.time() is the clock of the model; what   *)
(* can_make_request reads from it is computed as the code computes it.     *)
(***************************************************************************)
\* str.lower, on the letters the error texts are written in
lower_char(c) ==
  CASE c = "R" -> "r" [] c = "A" -> "a" [] c = "T" -> "t" [] c = "E" -> "e"
    [] c = "M" -> "m" [] OTHER -> c
lower(text) == [i \in DOMAIN text |-> lower_char(text[i])]

\* sub in text, of two strings
contains(text, sub) ==
  \E i \in 0..(Len(text) - Len(sub)) : SubSeq(text, i + 1, i + Len(sub)) = sub

\* the two strings record_request_error looks for
rate == <<"r", "a", "t", "e">>
too_many == <<"t", "o", "o", " ", "m", "a", "n", "y">>

\* the builtin min
min(x, y) == IF x <= y THEN x ELSE y

\* the cooldown doubled before max_cooldown is applied to it
cooldown_doubled_before_max(base, max_cooldown, consecutive_errors, error_message) ==
  LET backoff_power == min(consecutive_errors - 1, max_backoff_power)
      raised == base * (BACKOFF_MULTIPLIER ^ backoff_power)
  IN  IF \/ contains(lower(error_message), rate)
         \/ contains(lower(error_message), too_many)
      THEN min(raised * 2, max_cooldown)
      ELSE min(raised, max_cooldown)

\* record_request_error, lines 130-135: the cooldown_duration it returns
cooldown_duration(base, max_cooldown, consecutive_errors, error_message) ==
  LET backoff_power == min(consecutive_errors - 1, max_backoff_power)
      raised == base * (BACKOFF_MULTIPLIER ^ backoff_power)
      capped == min(raised, max_cooldown)
  IN  IF \/ contains(lower(error_message), rate)
         \/ contains(lower(error_message), too_many)
      THEN capped * 2
      ELSE capped

\* AgentCooldown.is_on_cooldown
is_on_cooldown(tm, agent_id) == tm.now < tm.cooldown_until[agent_id]

\* can_make_request, lines 89, 95-96 and 100-101: what it reads from the clock
read_clock(tm, agent_id) ==
  [on_cooldown |-> is_on_cooldown(tm, agent_id),
   too_soon |-> tm.now - tm.last_request_time[agent_id] < min_request_interval,
   global_too_soon |-> tm.now - tm.last_global_request < global_min_interval]

\* the call the limiter last returned from
Called(name, agent_id, text, returned) ==
  [name |-> name, agent_id |-> agent_id, text |-> text, returned |-> returned]

\* record_request_start, lines 108-112: the times it writes
start_times(tm, agent_id) ==
  [tm EXCEPT !.last_request_time[agent_id] = tm.now,
             !.last_global_request = tm.now,
             !.call = Called("record_request_start", agent_id, <<>>, 0)]

\* record_request_success writes no time
success_times(tm, agent_id) ==
  [tm EXCEPT !.errors_since_success[agent_id] = 0,
             !.call = Called("record_request_success", agent_id, <<>>, 0)]

\* record_request_error, lines 124-137 and 142: the time it writes and the
\* duration it returns, the agent's consecutive_errors already counted in rl
error_times(tm, rl, agent_id, error_message) ==
  LET duration ==
        cooldown_duration(base_cooldown, tm.max_cooldown,
                          rl.agent_cooldowns[agent_id].consecutive_errors,
                          error_message)
  IN  [tm EXCEPT !.cooldown_until[agent_id] = tm.now + duration,
                 !.errors_since_success[agent_id] = @ + 1,
                 !.call = Called("record_request_error", agent_id,
                                 error_message, duration)]

(***************************************************************************)
(* The Tick Engine: one call of execute_tick is one step, and run is a      *)
(* loop of them.  The engine is the single-threaded control loop of the    *)
(* kernel: calls of its methods do not overlap.                            *)
(***************************************************************************)
\* AgentManager.list_agent_ids: the registered ids in the order they were
\* spawned, which for these agents is the sorted order too
list_agent_ids(ag) == SelectSeq(<<"a", "b">>, LAMBDA x : x \in ag)

\* the x in DefaultSeed .. DefaultSeed + 10 for which
\* random.Random(x).shuffle swaps a list of two elements (CPython)
shuffle_swaps == {42, 43, 46, 49, 51}

\* for the same x, the positions random.Random(x).shuffle takes the elements
\* of a list of three from (CPython)
shuffle_perms ==
  (42 :> <<2, 1, 3>>) @@ (43 :> <<3, 2, 1>>) @@ (44 :> <<3, 1, 2>>) @@
  (45 :> <<1, 3, 2>>) @@ (46 :> <<3, 2, 1>>) @@ (47 :> <<3, 1, 2>>) @@
  (48 :> <<1, 2, 3>>) @@ (49 :> <<3, 2, 1>>) @@ (50 :> <<1, 3, 2>>) @@
  (51 :> <<2, 3, 1>>) @@ (52 :> <<3, 1, 2>>)

\* random.Random(x).shuffle(ids)
shuffle(x, ids) ==
  IF Len(ids) = 2 /\ x \in shuffle_swaps THEN <<ids[2], ids[1]>>
  ELSE IF Len(ids) = 3 THEN [k \in 1..3 |-> ids[shuffle_perms[x][k]]]
  ELSE ids

\* the ids an AgentManager can hold, in the order of Python's str comparison
SortedIds == <<"a", "b", "c">>

\* agent_ids.sort()
sort(ids) == SelectSeq(SortedIds, LAMBDA x : \E k \in 1..Len(ids) : ids[k] = x)

\* _get_agent_order with an else branch that leaves the list as it is
get_agent_order_unsorted(seed, tick, agent_ids) ==
  IF seed # <<>> THEN shuffle(seed[1] + tick, agent_ids)
  ELSE agent_ids

\* TickEngine._get_agent_order, agent_ids being what list_agent_ids returns
get_agent_order(seed, tick, agent_ids) ==
  IF seed # <<>> THEN shuffle(seed[1] + tick, agent_ids)
  ELSE sort(agent_ids)

\* the scripted decision providers: the default one, which idles, and two
\* scripts
Providers == {"idle", "work", "trade"}

\* action_provider.get_action(agent_id, tick)
get_action(provider, agent_id, tick) ==
  CASE provider = "idle" -> IdleAction(agent_id, "No cognition layer active")
    [] provider = "work" ->
         IF tick = 0
         THEN MoveAction(agent_id, IF agent_id = "a" THEN "farm" ELSE "forest")
         ELSE HarvestAction(agent_id, IF agent_id = "a" THEN "wheat" ELSE "wood", 1)
    [] provider = "trade" ->
         IF agent_id = "a"
         THEN IF tick = 0
              THEN TradeProposalAction("a", "b", <<TradeItem("wheat", 1)>>, <<>>, "p1", 0)
              ELSE IdleAction("a", "waiting")
         ELSE IF tick = 0 THEN IdleAction("b", "waiting")
              ELSE AcceptTradeAction("b", "p1", TRUE)
    [] provider = "faulty" ->
         IF agent_id = "a" THEN MoveToList("a")
         ELSE MoveAction(agent_id, "farm")

\* the clocks the ticks of the model meet: the agent's cooldown is over or
\* is not, and its last request and the last global one are long ago
TickClocks ==
  {clock \in Clocks : ~clock.too_soon /\ ~clock.global_too_soon}

\* what happens at a request: the clock at can_make_request, and whether the
\* inference succeeds
LLMChoices == [clock : TickClocks, success : BOOLEAN]

\* the action parsed from the LLM's output when the inference succeeds: a
\* Move to a node for one agent, to a place off the graph for the other
parsed(agent_id) ==
  MoveAction(agent_id, IF agent_id = "a" THEN "farm" ELSE "mine")

\* one for each agent of a tick; providers that make no request have none
NoChoices ==
  [a \in Agents |->
     [clock |-> [on_cooldown |-> FALSE, too_soon |-> FALSE,
                 global_too_soon |-> FALSE],
      success |-> TRUE]]
Choices(provider) ==
  IF provider = "llm" THEN [Agents -> LLMChoices] ELSE {NoChoices}

\* get_action that asks the limiter and makes its request all the same
llm_get_action_ungated(rl, runs, agent_id, tick, choice) ==
  LET announced == set_tick(rl, tick)
      started == record_request_start(announced, agent_id)
      asked == <<"set_tick", "can_make_request", "record_request_start",
                 "choose_action">>
  IN  IF choice.success
      THEN [rl |-> record_request_success(started, agent_id),
            runs |-> [runs EXCEPT ![agent_id] = @ + 1],
            action |-> parsed(agent_id),
            is_rest |-> FALSE, llm_error |-> FALSE,
            calls |-> asked \o <<"record_request_success">>]
      ELSE [rl |-> record_request_error(started, agent_id),
            runs |-> [runs EXCEPT ![agent_id] = 0],
            action |-> IdleAction(agent_id, "inference failed"),
            is_rest |-> FALSE, llm_error |-> TRUE,
            calls |-> asked \o <<"record_request_error">>]

\* LLMActionProvider.get_action: the limiter it leaves, the action it returns,
\* the metadata get_last_action_metadata then gives, and the calls it made
\* on the limiter and on cognition, in their order
llm_get_action(rl, runs, agent_id, tick, choice) ==
  LET announced == set_tick(rl, tick)
      can_request == can_make_request(announced, agent_id, choice.clock)
      started == record_request_start(announced, agent_id)
      asked == <<"set_tick", "can_make_request">>
      requested == asked \o <<"record_request_start", "choose_action">>
  IN  IF ~can_request[1]
      THEN [rl |-> announced, runs |-> runs,
            action |-> IdleAction(agent_id, can_request[2]),
            is_rest |-> TRUE, llm_error |-> FALSE,
            calls |-> asked]
      ELSE IF choice.success
      THEN [rl |-> record_request_success(started, agent_id),
            runs |-> [runs EXCEPT ![agent_id] = @ + 1],
            action |-> parsed(agent_id),
            is_rest |-> FALSE, llm_error |-> FALSE,
            calls |-> requested \o <<"record_request_success">>]
      ELSE [rl |-> record_request_error(started, agent_id),
            runs |-> [runs EXCEPT ![agent_id] = 0],
            action |-> IdleAction(agent_id, "inference failed"),
            is_rest |-> FALSE, llm_error |-> TRUE,
            calls |-> requested \o <<"record_request_error">>]

\* lines 209-217: the action of the provider and its metadata, which only a
\* provider with get_last_action_metadata has
provide(rl, runs, provider, agent_id, tick, choice) ==
  IF provider = "llm" THEN llm_get_action(rl, runs, agent_id, tick, choice)
  ELSE [rl |-> rl, runs |-> runs, action |-> get_action(provider, agent_id, tick),
        is_rest |-> FALSE, llm_error |-> FALSE, calls |-> <<>>]

\* the names a callback that raises can be registered under
HookNames ==
  {"before_tick", "before_agent_action", "after_agent_action", "world_update",
   "after_tick", "after_tick_complete"}

\* _invoke_hooks without its try/except: what a callback raises leaves it
invoke_hooks_uncaught(installed, hook_name) == hook_name \in installed

\* TickEngine._invoke_hooks(hook_name): TRUE when an exception leaves it.
\* Every callback is called inside "try ... except Exception", which logs.
invoke_hooks(installed, hook_name) ==
  LET raised == hook_name \in installed
      caught == raised
  IN  raised /\ ~caught

\* TickEngine._process_scheduled_events, an event whose callback raises being
\* due: TRUE when an exception leaves it (the callback is called in a try)
process_scheduled_events(installed) ==
  LET raised == "scheduled_event" \in installed
      caught == raised
  IN  raised /\ ~caught

\* time.time() at "action.timestamp = time.time()": the field is read for
\* proposals only, which only the script "trade" makes
Times(provider) == IF provider = "trade" THEN 0..MaxTime ELSE {0}

\* "action.timestamp = time.time()": the field is read for proposals only
stamp(action, now) ==
  IF action.action_type = "TRADE_PROPOSAL" THEN [action EXCEPT !.timestamp = now]
  ELSE action

\* F applied to the value of v, v being evaluated once
Value(F(_), v) == CHOOSE y \in {F(x) : x \in {v}} : TRUE

\* an entry of trace: the call, _current_tick when it was made, the agent or
\* the event it was made for, and the TickStats it was handed (<<>>: none)
Call(name, tick, arg) ==
  [call |-> name, tick |-> tick, arg |-> arg, stats |-> <<>>]

\* ScheduledEvent.__init__; callback names what the callback does:
\*   "record"        nothing to the engine
\*   "schedule_now"  engine.schedule_event(tick, ..., name="late") for the
\*                   tick it is called in, unless an event "late" is listed
ScheduledEvent(tick, callback, name, recurring, interval) ==
  [tick |-> tick, callback |-> callback, name |-> name,
   recurring |-> recurring, interval |-> interval]

\* the names of the events in the list (the model's events differ in name)
event_names(events) == {events[i].name : i \in DOMAIN events}

\* TickEngine.cancel_event called by a callback for the events of these
\* names: each one listed is removed, and the call returns True
cancel_events(a, names) ==
  LET cancelled == SelectSeq(a.events, LAMBDA e : e.name \in names)
  IN  [a EXCEPT
         !.events = SelectSeq(@, LAMBDA e : e.name \notin names),
         !.trace = @ \o [i \in DOMAIN cancelled |->
                           Call("cancel_event", a.tick, cancelled[i].name)]]

\* the locals of execute_tick when it starts, and the fields of the engine
\* that the callbacks it calls can write
TickStart(st, rl, runs) ==
  [st |-> st, rl |-> rl, runs |-> runs, escaped |-> FALSE,
   actions_executed |-> 0, actions_succeeded |-> 0, actions_failed |-> 0,
   llm_errors |-> 0, agents_resting |-> 0,
   tick |-> current_tick, running |-> running, paused |-> paused,
   events |-> scheduled_events, history |-> tick_history, trace |-> <<>>]

\* _invoke_hooks(hook_name, self, _current_tick, ...) as execute_tick calls
\* it.  Besides the callbacks that raise, three callbacks act on the engine:
\*   "stop"       under before_agent_action, calls engine.stop()
\*   "pause"      under after_agent_action, calls engine.pause()
\*   "scheduler"  under before_tick, schedules the one-shot event "hooked"
\*                for the tick it is called in, unless one is listed
\*   "canceller"  under before_tick, calls engine.cancel_event on every
\*                event listed
call_hooks(acc, installed, hook_name, arg) ==
  Value(LAMBDA a :
          [(IF hook_name = "before_tick" /\ "canceller" \in installed
            THEN cancel_events(
                   [a EXCEPT !.trace = Append(@, Call(hook_name, a.tick, arg))],
                   event_names(a.events))
            ELSE [a EXCEPT !.trace = Append(@, Call(hook_name, a.tick, arg))])
           EXCEPT
             !.running = IF /\ hook_name = "before_agent_action"
                            /\ "stop" \in installed
                         THEN FALSE ELSE @,
             !.paused = IF /\ hook_name = "after_agent_action"
                           /\ "pause" \in installed
                        THEN TRUE ELSE @,
             !.events = IF /\ hook_name = "before_tick"
                           /\ "scheduler" \in installed
                           /\ "hooked" \notin event_names(@)
                        THEN Append(@, ScheduledEvent(a.tick, "record",
                                                      "hooked", FALSE, 0))
                        ELSE @,
             !.escaped = invoke_hooks(installed, hook_name)],
        acc)

\* lines 142-156: the callback of event is called, then the event is moved
\* to its next tick or removed.  The callbacks of the model:
\*   "record"         does nothing to the engine
\*   "schedule_now"   schedules the one-shot event "late" for the tick it
\*                    is called in, unless one is listed
\*   "cancel_self"    calls engine.cancel_event on its own event
\*   "cancel_others"  calls engine.cancel_event on every other event listed
\* "self._scheduled_events.remove(event)" (line 156) is outside the try: for
\* an event no longer in the list it raises ValueError, which leaves
\* _process_scheduled_events
fire_event(acc, event) ==
  Value(LAMBDA a :
          LET entered ==
                [a EXCEPT !.trace = Append(@, Call("scheduled_event", a.tick,
                                                   event.name))]
              called ==
                CASE event.callback = "schedule_now"
                       /\ "late" \notin event_names(a.events) ->
                       [entered EXCEPT !.events =
                          Append(@, ScheduledEvent(a.tick, "record", "late",
                                                   FALSE, 0))]
                  [] event.callback = "cancel_self" ->
                       cancel_events(entered, {event.name})
                  [] event.callback = "cancel_others" ->
                       cancel_events(entered,
                                     event_names(a.events) \ {event.name})
                  [] OTHER -> entered
          IN  IF event.recurring /\ event.interval > 0
              THEN [called EXCEPT !.events =
                      [i \in DOMAIN called.events |->
                         IF called.events[i].name = event.name
                         THEN [called.events[i] EXCEPT
                                 !.tick = a.tick + event.interval]
                         ELSE called.events[i]]]
              ELSE IF event.name \in event_names(called.events)
              THEN [called EXCEPT !.events =
                      SelectSeq(@, LAMBDA e : e.name # event.name)]
              ELSE [called EXCEPT !.escaped = TRUE],
        acc)

\* lines 141-156: the loop over events_to_process, left where an exception
\* leaves it
RECURSIVE fire_events(_, _)
fire_events(acc, events_to_process) ==
  Value(LAMBDA a :
          IF events_to_process = <<>> \/ a.escaped THEN a
          ELSE fire_events(fire_event(a, Head(events_to_process)),
                           Tail(events_to_process)),
        acc)

\* TickEngine._process_scheduled_events: events_to_process is the list of the
\* events due when it starts
dispatch_events(acc, installed) ==
  Value(LAMBDA a :
          [fire_events(a, SelectSeq(a.events, LAMBDA e : e.tick = a.tick))
             EXCEPT !.escaped = @ \/ process_scheduled_events(installed)],
        acc)

\* lines 238-246 with a rest counted as a failed action
count_rest_failed(acc, r, p) ==
  LET succeeded == r.result \in {"SUCCESS", "PARTIAL"} /\ ~p.is_rest
  IN  [acc EXCEPT
         !.st = r.st, !.rl = p.rl, !.runs = p.runs,
         !.actions_executed = @ + 1,
         !.actions_succeeded = @ + (IF ~p.llm_error /\ succeeded THEN 1 ELSE 0),
         !.actions_failed = @ + (IF p.llm_error \/ ~succeeded THEN 1 ELSE 0),
         !.llm_errors = @ + (IF p.llm_error THEN 1 ELSE 0),
         !.agents_resting = @ + (IF p.is_rest THEN 1 ELSE 0)]

\* lines 238-246 with the outcome alone deciding what an action counts as
count_by_outcome(acc, r, p) ==
  LET succeeded == r.result \in {"SUCCESS", "PARTIAL"}
  IN  [acc EXCEPT
         !.st = r.st, !.rl = p.rl, !.runs = p.runs,
         !.actions_executed = @ + 1,
         !.actions_succeeded = @ + (IF succeeded THEN 1 ELSE 0),
         !.actions_failed = @ + (IF ~succeeded THEN 1 ELSE 0),
         !.llm_errors = @ + (IF p.llm_error THEN 1 ELSE 0),
         !.agents_resting = @ + (IF p.is_rest THEN 1 ELSE 0)]

\* lines 216-246: the counters after the action p of the provider was
\* executed with outcome r
count(acc, r, p) ==
  LET succeeded == r.result \in {"SUCCESS", "PARTIAL"}
  IN  [acc EXCEPT
         !.st = r.st, !.rl = p.rl, !.runs = p.runs,
         !.actions_executed = @ + 1,
         !.actions_succeeded = @ + (IF ~p.llm_error /\ succeeded THEN 1 ELSE 0),
         !.actions_failed = @ + (IF p.llm_error \/ ~succeeded THEN 1 ELSE 0),
         !.llm_errors = @ + (IF p.llm_error THEN 1 ELSE 0),
         !.agents_resting = @ + (IF p.is_rest THEN 1 ELSE 0)]

\* lines 209-246 left out for an agent once stop() has been called
act_unless_stopped(acc, agent_id, provider, tick, now, choice) ==
  Value(LAMBDA a :
          LET p == provide(a.rl, a.runs, provider, agent_id, tick, choice)
              r == execute(a.st, stamp(p.action, now))
              acted == [a EXCEPT
                          !.trace = @ \o <<Call("get_action", a.tick, agent_id),
                                           Call("execute", a.tick, agent_id)>>]
          IN  IF a.escaped \/ ~a.running THEN a
              ELSE IF r.result = "RAISED"
              THEN [acted EXCEPT !.rl = p.rl, !.runs = p.runs, !.escaped = TRUE]
              ELSE count(acted, r, p),
        acc)

\* lines 209-246 for one agent, the before_agent_action hooks having left
\* acc: the provider is asked, its action is executed and counted; escaped
\* says that an exception has left the step, and with it execute_tick
act(acc, agent_id, provider, tick, now, choice) ==
  Value(LAMBDA a :
          LET p == provide(a.rl, a.runs, provider, agent_id, tick, choice)
              r == execute(a.st, stamp(p.action, now))
              acted == [a EXCEPT
                          !.trace = @ \o <<Call("get_action", a.tick, agent_id),
                                           Call("execute", a.tick, agent_id)>>]
          IN  IF a.escaped THEN a
              ELSE IF r.result = "RAISED"
              THEN [acted EXCEPT !.rl = p.rl, !.runs = p.runs, !.escaped = TRUE]
              ELSE count(acted, r, p),
        acc)

\* one iteration of execute_tick's loop (lines 207-259)
agent_step(acc, agent_id, provider, tick, now, choice, installed) ==
  Value(LAMBDA a :
          IF a.escaped THEN a
          ELSE call_hooks(a, installed, "after_agent_action", agent_id),
        act(call_hooks(acc, installed, "before_agent_action", agent_id),
            agent_id, provider, tick, now, choice))

\* the loop left after its first iteration
agent_actions_first_only(acc, order, provider, tick, now, choices, installed) ==
  IF order = <<>> THEN acc
  ELSE agent_step(acc, Head(order), provider, tick, now, choices[Head(order)],
                  installed)

\* execute_tick's loop over agent_order (lines 206-259): acc carries the
\* world, the limiter and the counters
RECURSIVE agent_actions(_, _, _, _, _, _, _)
agent_actions(acc, order, provider, tick, now, choices, installed) ==
  IF order = <<>> THEN acc
  ELSE agent_actions(
         Value(LAMBDA a :
                 IF a.escaped THEN a
                 ELSE agent_step(a, Head(order), provider, tick, now,
                                 choices[Head(order)], installed),
               acc),
         Tail(order), provider, tick, now, choices, installed)

\* InventoryDecayHook.decay_items: the items that decay, each with a chance
\* strictly between 0 and 1
decay_items == {"wheat"}

\* InventoryDecayHook.execute: every unit of a decaying item goes or stays
\* as an unseeded random.random() falls
decay_outcomes(st) ==
  {inv \in [Agents -> [Items -> 0..MaxCap]] :
     \A a \in Agents : \A i \in Items :
        IF a \in st.agents /\ i \in decay_items
        THEN inv[a][i] <= st.inventory[a][i]
        ELSE inv[a][i] = st.inventory[a][i]}

\* _invoke_hooks("after_tick"): the inventories the registered hooks can leave
after_tick(st, installed) ==
  IF "InventoryDecay" \in installed THEN decay_outcomes(st) ELSE {st.inventory}

\* min_tick_duration * 1000: a tick is slept up to this many milliseconds
MinTickMs == 1000
\* TickEngine._max_history
max_history == 1000

\* (tick_end - tick_start) * 1000 after the sleep: the minimum, or more
durations == {MinTickMs, MinTickMs + 1}

\* a TickStats that carries the tick after the one it ran
TickStatsLate(tick, duration_ms, agents_processed, r) ==
  [tick |-> tick + 1, duration_ms |-> duration_ms,
   agents_processed |-> agents_processed,
   actions_executed |-> r.actions_executed,
   actions_succeeded |-> r.actions_succeeded,
   actions_failed |-> r.actions_failed,
   events_logged |-> 0, llm_errors |-> r.llm_errors,
   agents_resting |-> r.agents_resting]

\* TickStats.__init__ as execute_tick calls it
TickStats(tick, duration_ms, agents_processed, r) ==
  [tick |-> tick, duration_ms |-> duration_ms,
   agents_processed |-> agents_processed,
   actions_executed |-> r.actions_executed,
   actions_succeeded |-> r.actions_succeeded,
   actions_failed |-> r.actions_failed,
   events_logged |-> 0, llm_errors |-> r.llm_errors,
   agents_resting |-> r.agents_resting]

\* "_tick_history.append(stats)", dropping the oldest beyond _max_history
append_history(history, stats) ==
  IF Len(history) + 1 > max_history THEN Tail(Append(history, stats))
  ELSE Append(history, stats)

\* lines 275-305 with _current_tick incremented before the
\* after_tick_complete hooks are invoked
complete_tick_incrementing_first(acc, installed, duration_ms, agents_processed) ==
  Value(LAMBDA a :
          LET stats == TickStats(a.tick, duration_ms, agents_processed, a)
              entry == [Call("after_tick_complete", a.tick + 1, "") EXCEPT
                          !.stats = <<stats>>]
          IN  [a EXCEPT
                 !.trace = @ \o <<Call("TickStats", a.tick, ""), entry>>,
                 !.history = append_history(@, stats),
                 !.escaped = invoke_hooks(installed, "after_tick_complete"),
                 !.tick = @ + 1],
        acc)

\* lines 275-305 of execute_tick: the TickStats, the history, the
\* after_tick_complete hooks, and the increment of _current_tick
complete_tick(acc, installed, duration_ms, agents_processed) ==
  Value(LAMBDA a :
          LET stats == TickStats(a.tick, duration_ms, agents_processed, a)
              entry == [Call("after_tick_complete", a.tick, "") EXCEPT
                          !.stats = <<stats>>]
          IN  [a EXCEPT
                 !.trace = @ \o <<Call("TickStats", a.tick, ""), entry>>,
                 !.history = append_history(@, stats),
                 !.escaped = invoke_hooks(installed, "after_tick_complete"),
                 !.tick = IF invoke_hooks(installed, "after_tick_complete")
                          THEN @ ELSE @ + 1],
        acc)

\* the last tick the model executes
MaxTick == NumTicks + 1

\* TickEngine.execute_tick, the whole call.  An exception that leaves one of
\* its phases leaves execute_tick: what was done up to there stays done, and
\* the phases after it are not run.
tick_body ==
  \E called \in {call_hooks(TickStart(State, rate_limiter, success_run),
                            hooks, "before_tick", "")} :
  \E before \in {IF called.escaped THEN called
                 ELSE dispatch_events(called, hooks)} :
  \E order \in {get_agent_order(agent_order_seed, current_tick,
                                 list_agent_ids(agents))} :
  \E now \in Times(action_provider) :
  \E choices \in Choices(action_provider) :
  \E r \in {agent_actions(before, order, action_provider, current_tick,
                          now, choices, hooks)} :
  \E updated \in {IF r.escaped THEN r
                  ELSE call_hooks(r, hooks, "world_update", "")} :
  \E in_loop \in {IF updated.escaped THEN updated
                  ELSE call_hooks(updated, hooks, "after_tick", "")} :
  \E duration_ms \in durations :
  \E at_end \in {IF in_loop.escaped THEN in_loop
                 ELSE complete_tick(in_loop, hooks, duration_ms,
                                    Len(order))} :
        /\ current_tick < MaxTick
        /\ agents' = r.st.agents
        /\ location' = r.st.location
        /\ pending_trades' = r.st.pending_trades
        /\ skills' = r.st.skills
        /\ richness' = r.st.richness
        /\ rate_limiter' = r.rl
        /\ success_run' = r.runs
        /\ IF in_loop.escaped
           THEN /\ inventory' = r.st.inventory
                /\ outcome' = [type |-> "TICK", result |-> "RAISED",
                               message |-> "", count |-> r.actions_executed]
           ELSE /\ inventory' \in after_tick(r.st, hooks)
                /\ outcome' = [type |-> "TICK",
                               result |-> IF at_end.escaped THEN "RAISED"
                                          ELSE "DONE",
                               message |-> "", count |-> r.actions_executed]
        /\ tick_history' = at_end.history
        /\ current_tick' = at_end.tick
        /\ running' = at_end.running
        /\ paused' = at_end.paused
        /\ scheduled_events' = at_end.events
        /\ trace' = at_end.trace
        /\ UNCHANGED <<agent_order_seed, hooks, action_provider, first_run,
                       stop_condition, engines, hvars, timers>>

\* the predicates given to run as stop_condition: None, "lambda e: True", and
\* "lambda e: e.current_tick >= StopTick"
StopTick == 1
StopConditions == {"none", "always", "at_tick"}

\* "stop_condition and stop_condition(self)" (line 378)
stop_now(p, tick) ==
  CASE p = "none" -> FALSE
    [] p = "always" -> TRUE
    [] p = "at_tick" -> tick >= StopTick

\* run's loop with the test of _paused left out
loop_continues_when_paused(is_running, is_paused, ran, n, p, tick) ==
  /\ is_running
  /\ ran < n
  /\ ~stop_now(p, tick)

\* run's loop with the test of stop_condition left out
loop_continues_without_condition(is_running, is_paused, ran, n, p, tick) ==
  /\ is_running
  /\ ~is_paused
  /\ ran < n

\* lines 370-379: the pass of run's loop reaches execute_tick
loop_continues(is_running, is_paused, ran, n, p, tick) ==
  /\ is_running
  /\ ~is_paused
  /\ ran < n
  /\ ~stop_now(p, tick)

\* lines 370-379: the pass of run's loop leaves the loop
loop_exits(is_running, is_paused, ran, n, p, tick) ==
  \/ ~is_running
  \/ /\ ~is_paused
     /\ ran >= n \/ stop_now(p, tick)

\* execute_tick called on its own (SimulationManager.step)
execute_tick ==
  /\ pc = "idle"
  /\ tick_body
  /\ UNCHANGED <<pc, ticks_run, num_ticks, stats_list>>

\* TickEngine.run(n) up to its loop
run ==
  \E n \in 1..NumTicks :
     /\ pc = "idle"
     /\ pc' = "run"
     /\ running' = TRUE
     /\ stats_list' = <<>>
     /\ ticks_run' = 0
     /\ num_ticks' = n
     /\ stop_condition' = "none"
     /\ UNCHANGED <<ivars, current_tick, paused, tick_history, agent_order_seed,
                    hooks, action_provider, first_run, scheduled_events, trace,
                    xvars>>

\* one pass of run's loop that executes a tick
run_tick ==
  /\ pc = "run"
  /\ loop_continues(running, paused, ticks_run, num_ticks, stop_condition,
                    current_tick)
  /\ tick_body
  /\ stats_list' = Append(stats_list, tick_history'[Len(tick_history')])
  /\ ticks_run' = ticks_run + 1
  /\ UNCHANGED <<pc, num_ticks>>

\* run leaves its loop (stopped, or num_ticks reached) and returns stats_list
run_return ==
  /\ pc = "run"
  /\ loop_exits(running, paused, ticks_run, num_ticks, stop_condition,
                current_tick)
  /\ running' = FALSE
  /\ pc' = "idle"
  /\ UNCHANGED <<ivars, current_tick, paused, tick_history, agent_order_seed,
                 hooks, action_provider, ticks_run, num_ticks, stats_list, first_run, tvars, xvars>>

\* TickEngine.stop
stop ==
  /\ running' = FALSE
  /\ UNCHANGED <<ivars, current_tick, paused, tick_history, agent_order_seed,
                 hooks, action_provider, pc, ticks_run, num_ticks, stats_list,
                 first_run, tvars, xvars>>

\* TickEngine.pause
pause ==
  /\ paused' = TRUE
  /\ UNCHANGED <<ivars, current_tick, running, tick_history, agent_order_seed,
                 hooks, action_provider, pc, ticks_run, num_ticks, stats_list,
                 first_run, tvars, xvars>>

\* TickEngine.resume
resume ==
  /\ paused' = FALSE
  /\ UNCHANGED <<ivars, current_tick, running, tick_history, agent_order_seed,
                 hooks, action_provider, pc, ticks_run, num_ticks, stats_list,
                 first_run, tvars, xvars>>

\* TickEngine.reset(), between runs
reset ==
  /\ pc = "idle"
  /\ current_tick' = 0
  /\ tick_history' = <<>>
  /\ scheduled_events' = <<>>
  /\ trace' = <<>>
  /\ UNCHANGED <<ivars, running, paused, agent_order_seed, hooks,
                 action_provider, pc, ticks_run, num_ticks, stats_list,
                 first_run, stop_condition, xvars>>

\* the worlds an engine is built over
EngineWorlds == {NoInventories, [NoInventories EXCEPT !["a"]["wheat"] = 1]}

\* agent_order_seed as constructed (None) and as the runner sets it
DefaultSeed == 42
Seeds == {<<>>, <<DefaultSeed>>}

\* the decay hook is registered in the runs of the default provider
InitEngine ==
  \E inv \in EngineWorlds, seed \in Seeds, provider \in Providers :
    \E installed \in (IF provider = "idle" THEN SUBSET {"InventoryDecay"} ELSE {{}}) :
       /\ WorldInit(inv)
       /\ TickEngineInit(seed, installed, provider)
       /\ first_run = NotRun(inv)
       /\ engines = [e \in EngineIds |-> NewEngine(<<>>)]
       /\ LimiterIdle

NextEngine ==
  \/ execute_tick
  \/ run
  \/ run_tick
  \/ run_return
  \/ stop
  \/ pause
  \/ resume
  \/ reset

SpecEngine == InitEngine /\ [][NextEngine]_vars

(***************************************************************************)
(* Two runs of run(NumTicks), one after the other, by engines built over   *)
(* the same agents and world with the same seed, hooks and provider.       *)
(***************************************************************************)
\* the first run, and after rebuild the second
replay_run ==
  /\ current_tick = 0
  /\ ticks_run = 0
  /\ pc = "idle"
  /\ pc' = "run"
  /\ running' = TRUE
  /\ stats_list' = <<>>
  /\ ticks_run' = 0
  /\ num_ticks' = NumTicks
  /\ stop_condition' = "none"
  /\ UNCHANGED <<ivars, current_tick, paused, tick_history, agent_order_seed,
                 hooks, action_provider, first_run, scheduled_events, trace,
                 xvars>>

\* the first run has returned: keep what it returned and left, and build the
\* agents, the world and the engine again as they were built the first time
rebuild ==
  /\ pc = "idle"
  /\ ~first_run.finished
  /\ ticks_run = NumTicks
  /\ first_run' = [first_run EXCEPT !.finished = TRUE, !.stats = stats_list,
                                    !.agents = agents, !.location = location,
                                    !.inventory = inventory]
  /\ agents' = Agents
  /\ location' = [a \in Agents |-> ""]
  /\ inventory' = first_run.initial
  /\ pending_trades' = [p \in LedgerKeys |-> NoTrade]
  /\ skills' = NoSkills
  /\ richness' = resource_richness
  /\ outcome' = [type |-> "NONE", result |-> "NONE", message |-> "", count |-> 0]
  /\ current_tick' = 0
  /\ running' = FALSE
  /\ paused' = FALSE
  /\ tick_history' = <<>>
  /\ ticks_run' = 0
  /\ num_ticks' = 0
  /\ stats_list' = <<>>
  /\ scheduled_events' = <<>>
  /\ trace' = <<>>
  /\ UNCHANGED <<agent_order_seed, hooks, action_provider, pc, stop_condition,
                 xvars>>

NextReplay ==
  \/ replay_run
  \/ run_tick
  \/ run_return
  \/ rebuild

SpecReplay == InitEngine /\ [][NextReplay]_vars

(***************************************************************************)
(* The engine with callbacks that raise: hooks under every hook name, a    *)
(* scheduled event, and a provider whose action makes its handler raise.   *)
(***************************************************************************)
\* everything that can be registered to raise
AllRaising == HookNames \cup {"scheduled_event"}

\* nothing raising, one raising callback, or one under every name
RaisingSets == {{}} \cup {{h} : h \in AllRaising} \cup {AllRaising}

InitRaising ==
  \E installed \in RaisingSets, provider \in {"idle", "faulty"}, seed \in Seeds :
     /\ WorldInit(NoInventories)
     /\ TickEngineInit(seed, installed, provider)
     /\ first_run = NotRun(NoInventories)
     /\ engines = [e \in EngineIds |-> NewEngine(<<>>)]
     /\ LimiterIdle

NextRaising ==
  \/ execute_tick
  \/ run
  \/ run_tick
  \/ run_return

SpecRaising == InitRaising /\ [][NextRaising]_vars

(***************************************************************************)
(* The engine over the LLMActionProvider and its RateLimiter.              *)
(***************************************************************************)
InitLLM ==
  /\ WorldInit(NoInventories)
  /\ TickEngineInit(<<>>, {}, "llm")
  /\ first_run = NotRun(NoInventories)
  /\ engines = [e \in EngineIds |-> NewEngine(<<>>)]
  /\ LimiterIdle

NextLLM == execute_tick

SpecLLM == InitLLM /\ [][NextLLM]_vars

(***************************************************************************)
(* The visiting order: two engines, each over an AgentManager of its own,  *)
(* spawn their agents in any order and execute ticks; of a tick only the   *)
(* order it visits the agents in is kept.                                  *)
(***************************************************************************)
\* the seeds the two engines are configured with
OrderSeeds == {<<>>, <<DefaultSeed>>, <<DefaultSeed + 1>>}

OrderInit ==
  /\ WorldInit(NoInventories)
  /\ TickEngineInit(<<>>, {}, "idle")
  /\ first_run = NotRun(NoInventories)
  /\ \E s1 \in OrderSeeds, s2 \in OrderSeeds :
        engines = [e \in EngineIds |-> NewEngine(IF e = 1 THEN s1 ELSE s2)]
  /\ LimiterIdle

\* AgentManager.spawn_agent(agent_id=id) before the first tick: a new key of
\* _agents goes after the keys there are; an id already there raises ValueError
spawn_agent ==
  \E e \in EngineIds : \E id \in {SortedIds[k] : k \in 1..Len(SortedIds)} :
     /\ engines[e].current_tick = 0
     /\ \A k \in 1..Len(engines[e].agent_ids) : engines[e].agent_ids[k] # id
     /\ engines' = [engines EXCEPT ![e].agent_ids = Append(@, id)]
     /\ UNCHANGED <<ivars, evars, rate_limiter, success_run, hvars, timers>>

\* execute_tick of one engine: the order of the tick is taken at line 201
\* from the seed, the tick and the ids as they are then, and the tick ends
\* with "_current_tick += 1"
order_tick ==
  \E e \in EngineIds :
     LET eng == engines[e]
         order == get_agent_order(eng.agent_order_seed, eng.current_tick,
                                  eng.agent_ids)
     IN  /\ eng.current_tick < MaxTick
         /\ engines' = [engines EXCEPT
                          ![e].visited = <<[tick |-> eng.current_tick,
                                            order |-> order]>>,
                          ![e].current_tick = @ + 1]
         /\ UNCHANGED <<ivars, evars, rate_limiter, success_run, hvars, timers>>

NextOrder ==
  \/ spawn_agent
  \/ order_tick

SpecOrder == OrderInit /\ [][NextOrder]_vars

(***************************************************************************)
(* Proposals and the answers to them, with and without a proposal_id.      *)
(***************************************************************************)
\* the proposal_id of a proposal: one that was given, or the default
ResolveIds == {"p1", ""}

\* an exchange or a bare request
ResolveShapes ==
  {sh \in TradeShapes : Len(sh[1]) <= 1}

ResolveProposalActions ==
  {TradeProposalAction(pt[1], pt[2], sh[1], sh[2], p, 0) :
      pt \in Parties, sh \in ResolveShapes, p \in ResolveIds}

\* the answers of the target, of the proposer, of an agent that is not
\* registered and of no agent
ResolveAcceptActions ==
  {AcceptTradeAction(a, p, acc) :
      a \in AgentIds, p \in ResolveIds, acc \in BOOLEAN}

resolve_propose ==
  \E action \in ResolveProposalActions :
     /\ Executes(action)
     /\ UNCHANGED <<evars, xvars>>

resolve_accept ==
  \E action \in ResolveAcceptActions :
     /\ Executes(action)
     /\ UNCHANGED <<evars, xvars>>

NextResolve ==
  \/ resolve_propose
  \/ resolve_accept

SpecResolve == Init /\ [][NextResolve]_vars

(***************************************************************************)
(* The RateLimiter called method by method.                                *)
(***************************************************************************)
\* the last tick announced to the limiter, and the errors in a row and the
\* successes recorded for one agent, in the model
MaxLimiterTick == night_duration_default + 1
MaxErrors == 2
MaxSuccesses == RestInterval + 1

\* the limiter as constructed, mandatory rest on or off
LimiterInit ==
  /\ WorldInit(NoInventories)
  /\ TickEngineInit(<<>>, {}, "idle")
  /\ first_run = NotRun(NoInventories)
  /\ engines = [e \in EngineIds |-> NewEngine(<<>>)]
  /\ \E enable \in BOOLEAN : rate_limiter = RateLimiterInit(enable, RestInterval)
  /\ success_run = NoRuns
  /\ timers = TimersInit(LargeMaxCooldown)

\* what a call on the limiter returned
Returned(type, result, message) ==
  [type |-> type, result |-> result, message |-> message, count |-> 0]

\* set_tick(tick): the ticks are announced in the order the engine runs them
SetTick ==
  \E tick \in rate_limiter.current_tick .. (rate_limiter.current_tick + 2) :
     /\ tick <= MaxLimiterTick
     /\ rate_limiter' = set_tick(rate_limiter, tick)
     /\ outcome' = Returned("SET_TICK", "NONE", "")
     /\ UNCHANGED <<agents, location, inventory, pending_trades, skills,
                   richness, evars,
                    engines, success_run, hvars, timers>>

\* can_make_request(agent_id) is called and returns
CanMakeRequest ==
  \E agent_id \in Agents : \E clock \in Clocks :
     LET r == can_make_request(rate_limiter, agent_id, clock)
     IN  /\ outcome' = Returned("CAN_MAKE_REQUEST",
                                IF r[1] THEN "TRUE" ELSE "FALSE", r[2])
         /\ UNCHANGED <<agents, location, inventory, pending_trades, skills,
                   richness, evars,
                        xvars>>

\* record_request_success(agent_id) is called and returns
RecordRequestSuccess ==
  \E agent_id \in Agents :
     /\ rate_limiter.agent_cooldowns[agent_id].successful_requests < MaxSuccesses
     /\ rate_limiter' = record_request_success(rate_limiter, agent_id)
     /\ success_run' = [success_run EXCEPT ![agent_id] = @ + 1]
     /\ outcome' = Returned("RECORD_SUCCESS", "NONE", "")
     /\ UNCHANGED <<agents, location, inventory, pending_trades, skills,
                   richness, evars, engines, hvars, timers>>

\* record_request_error(agent_id) is called and returns
RecordRequestError ==
  \E agent_id \in Agents :
     /\ rate_limiter.agent_cooldowns[agent_id].consecutive_errors < MaxErrors
     /\ rate_limiter.error_count_this_tick < error_threshold_for_night
     /\ rate_limiter' = record_request_error(rate_limiter, agent_id)
     /\ success_run' = [success_run EXCEPT ![agent_id] = 0]
     /\ outcome' = Returned("RECORD_ERROR", "NONE", "")
     /\ UNCHANGED <<agents, location, inventory, pending_trades, skills,
                   richness, evars, engines, hvars, timers>>

NextLimiter ==
  \/ SetTick
  \/ CanMakeRequest
  \/ RecordRequestSuccess
  \/ RecordRequestError

SpecLimiter == LimiterInit /\ [][NextLimiter]_vars

(***************************************************************************)
(* The RateLimiter called method by method while time passes.              *)
(***************************************************************************)
\* how far the clock runs, the errors recorded, the requests started
MaxElapsed == 2
MaxRecorded == max_backoff_power + 2
MaxStarted == 1
\* the successes recorded for an agent among its errors
MaxResets == 1

\* the texts of the errors: none, two that name a rate limit, one that
\* does not
ErrorTexts ==
  {<<>>, <<"R", "a", "t", "e">>, <<"T", "o", "o", " ", "M", "a", "n", "y">>,
   <<"t", "i", "m", "e", "o", "u", "t">>}

\* the limiter as constructed with one of these max_cooldown
TimedInit(max_cooldowns) ==
  /\ WorldInit(NoInventories)
  /\ TickEngineInit(<<>>, {}, "idle")
  /\ first_run = NotRun(NoInventories)
  /\ engines = [e \in EngineIds |-> NewEngine(<<>>)]
  /\ rate_limiter = RateLimiterInit(TRUE, RestInterval)
  /\ success_run = NoRuns
  /\ \E max_cooldown \in max_cooldowns : timers = TimersInit(max_cooldown)

InitTimed == TimedInit({LargeMaxCooldown})

\* the requests started so far, by all agents
requests_started(rl) ==
  SumItems([a \in Agents |-> rl.agent_cooldowns[a].total_requests], Agents)

\* time passes between two calls
elapse ==
  /\ timers.now < StartTime + MaxElapsed
  /\ timers' = [timers EXCEPT !.now = @ + 1]
  /\ UNCHANGED <<ivars, evars, engines, rate_limiter, success_run, hvars>>

\* can_make_request(agent_id) is called at the time it is
timed_can_make_request ==
  \E agent_id \in Agents :
     LET r == can_make_request(rate_limiter, agent_id,
                               read_clock(timers, agent_id))
     IN  /\ timers' = [timers EXCEPT !.call =
                         Called("can_make_request", agent_id, <<>>, 0)]
         /\ outcome' = Returned("CAN_MAKE_REQUEST",
                                IF r[1] THEN "TRUE" ELSE "FALSE", r[2])
         /\ UNCHANGED <<agents, location, inventory, pending_trades, skills,
                        richness, evars, engines, rate_limiter, success_run,
                        hvars>>

\* record_request_start(agent_id) is called at the time it is
timed_request_start ==
  \E agent_id \in Agents :
     /\ requests_started(rate_limiter) < MaxStarted
     /\ rate_limiter' = record_request_start(rate_limiter, agent_id)
     /\ timers' = start_times(timers, agent_id)
     /\ outcome' = Returned("RECORD_START", "NONE", "")
     /\ UNCHANGED <<agents, location, inventory, pending_trades, skills,
                    richness, evars, engines, success_run, hvars>>

\* record_request_success(agent_id) is called; the history success_run is
\* that of SpecLimiter and is not kept here
request_success(agent_id) ==
     /\ rate_limiter' = record_request_success(rate_limiter, agent_id)
     /\ timers' = success_times(timers, agent_id)
     /\ outcome' = Returned("RECORD_SUCCESS", "NONE", "")
     /\ UNCHANGED <<agents, location, inventory, pending_trades, skills,
                    richness, evars, engines, success_run, hvars>>

\* record_request_error(agent_id, error_message) is called at the time it is
request_error(agent_id, error_message) ==
     /\ rate_limiter' = record_request_error(rate_limiter, agent_id)
     /\ timers' = error_times(timers, rate_limiter', agent_id, error_message)
     /\ outcome' = Returned("RECORD_ERROR", "NONE", "")
     /\ UNCHANGED <<agents, location, inventory, pending_trades, skills,
                    richness, evars, engines, success_run, hvars>>

\* a success is recorded, up to the one that brings the mandatory rest
timed_request_success ==
  \E agent_id \in Agents :
     /\ rate_limiter.agent_cooldowns[agent_id].successful_requests < RestInterval
     /\ request_success(agent_id)

\* an error is recorded while no night has begun
timed_request_error ==
  \E agent_id \in Agents : \E error_message \in {<<>>} :
     /\ rate_limiter.agent_cooldowns[agent_id].consecutive_errors < MaxErrors
     /\ rate_limiter.error_count_this_tick < error_threshold_for_night
     /\ request_error(agent_id, error_message)

NextTimed ==
  \/ elapse
  \/ timed_can_make_request
  \/ timed_request_start
  \/ timed_request_success
  \/ timed_request_error

SpecTimed == InitTimed /\ [][NextTimed]_vars

(***************************************************************************)
(* LLMActionProvider.get_action called agent by agent while time passes.   *)
(***************************************************************************)
\* the requests started for one agent
MaxRequests == 3

\* the provider and its limiter as constructed
InitProvider == TimedInit({LargeMaxCooldown})

\* the times the limiter has after a get_action that returned p
get_action_times(tm, p, agent_id, error_message) ==
  LET started == start_times(tm, agent_id)
      recorded ==
        IF p.is_rest THEN tm
        ELSE IF p.llm_error
        THEN error_times(started, p.rl, agent_id, error_message)
        ELSE success_times(started, agent_id)
  IN  [recorded EXCEPT !.call =
         Called("get_action", agent_id, error_message, recorded.call.returned)]

\* get_action(agent_id, tick) is called at the time it is; the inference,
\* where one is made, succeeds or fails
provider_get_action ==
  \E agent_id \in Agents :
  \E tick \in rate_limiter.current_tick .. (rate_limiter.current_tick + 1) :
  \E success \in BOOLEAN :
  \E p \in {llm_get_action(rate_limiter, success_run, agent_id, tick,
                            [clock |-> read_clock(timers, agent_id),
                             success |-> success])} :
     /\ tick <= NumTicks
     /\ rate_limiter.agent_cooldowns[agent_id].total_requests < MaxRequests
     /\ rate_limiter' = p.rl
     /\ success_run' = p.runs
     /\ timers' = get_action_times(timers, p, agent_id, <<>>)
     /\ trace' = [i \in DOMAIN p.calls |-> Call(p.calls[i], tick, agent_id)]
     /\ outcome' = Returned("GET_ACTION", p.action.action_type, "")
     /\ UNCHANGED <<agents, location, inventory, pending_trades, skills,
                    richness, current_tick, running, paused, tick_history,
                    agent_order_seed, hooks, action_provider, pc, ticks_run,
                    num_ticks, stats_list, first_run, scheduled_events,
                    stop_condition, engines, hvars>>

NextProvider ==
  \/ elapse
  \/ provider_get_action

SpecProvider == InitProvider /\ [][NextProvider]_vars

(***************************************************************************)
(* The RateLimiter recording errors in a row: the backoff.                 *)
(***************************************************************************)
\* one error more is recorded, night or not
backoff_request_error ==
  \E agent_id \in Agents : \E error_message \in ErrorTexts :
     /\ rate_limiter.error_count_this_tick < MaxRecorded
     /\ request_error(agent_id, error_message)

\* a success is recorded between the errors
backoff_request_success ==
  \E agent_id \in Agents :
     /\ rate_limiter.agent_cooldowns[agent_id].successful_requests < MaxResets
     /\ request_success(agent_id)

NextBackoff ==
  \/ elapse
  \/ backoff_request_success
  \/ backoff_request_error

InitBackoff == TimedInit({SmallMaxCooldown, LargeMaxCooldown})

SpecBackoff == InitBackoff /\ [][NextBackoff]_vars

(***************************************************************************)
(* The interpreter given actions with a field of the wrong type, as        *)
(* ActionFactory.from_dict builds them from unchecked data.                *)
(***************************************************************************)
MalformedActions ==
  {HarvestOfStr(a) : a \in Agents} \cup {MoveToList(a) : a \in Agents}

\* execute(action) on a malformed action
ExecuteMalformed ==
  \E action \in MalformedActions :
     LET r == execute(State, action)
     IN  /\ agents' = r.st.agents
         /\ location' = r.st.location
         /\ inventory' = r.st.inventory
         /\ pending_trades' = r.st.pending_trades
         /\ skills' = r.st.skills
         /\ richness' = r.st.richness
         /\ outcome' = Outcome(action, r)
         /\ UNCHANGED <<evars, xvars>>

NextFaults ==
  \/ Move
  \/ Harvest
  \/ ExecuteMalformed

SpecFaults == Init /\ [][NextFaults]_vars

(***************************************************************************)
(* The interpreter with a recipe that trains a skill: Moves, Harvests,     *)
(* Crafts of every recipe in several quantities, and proposals that fill   *)
(* the ledger.                                                             *)
(***************************************************************************)
\* largest quantity a Craft asks for
MaxQuantity == 2
\* the model submits no Craft that would take a skill beyond this level
MaxSkill == 2

\* the agent that works: the other one only proposes
Worker == "a"

\* the Moves, Harvests and Crafts submitted: the worker's with every field
\* value, and the degenerate ones
WorkActions ==
  {action \in MoveActions \cup HarvestActions :
      action.agent_id # "b"}
    \cup {CraftAction(Worker, r, q) : r \in {"thresh", "mill", "none"},
                                      q \in 1..MaxQuantity}
    \cup {CraftAction("ghost", "mill", 1), CraftAction(Worker, "mill", 0),
          CraftAction(Worker, "", 1)}

\* execute(action) for a Move, Harvest or Craft
Work ==
  \E action \in WorkActions :
     LET r == execute(State, action)
     IN  /\ \A a \in Agents : \A k \in Skills : r.st.skills[a][k] <= MaxSkill
         /\ agents' = r.st.agents
         /\ location' = r.st.location
         /\ inventory' = r.st.inventory
         /\ pending_trades' = r.st.pending_trades
         /\ skills' = r.st.skills
         /\ richness' = r.st.richness
         /\ outcome' = Outcome(action, r)
         /\ UNCHANGED <<evars, xvars>>

\* a proposal that needs no holdings, to have a trade pending
Propose ==
  LET action == TradeProposalAction("b", Worker, <<>>,
                                    <<TradeItem("wood", 1)>>, "p1", 0)
      r == execute(State, action)
  IN  /\ agents' = r.st.agents
      /\ location' = r.st.location
      /\ inventory' = r.st.inventory
      /\ pending_trades' = r.st.pending_trades
      /\ skills' = r.st.skills
      /\ richness' = r.st.richness
      /\ outcome' = Outcome(action, r)
      /\ UNCHANGED <<evars, xvars>>

\* the worker holds anything its capacity allows, the other agent nothing
InitCraft ==
  /\ \E inv \in {w \in [Agents -> [Items -> 0..MaxCap]] :
                    w[Worker] \in Inventories(Worker) /\ w["b"] = NoInventory} :
        WorldInit(inv)
  /\ TickEngineInit(<<>>, {}, "idle")
  /\ first_run = NotRun(NoInventories)
  /\ engines = [e \in EngineIds |-> NewEngine(<<>>)]
  /\ LimiterIdle

NextCraft ==
  \/ Work
  \/ Propose

SpecCraft == InitCraft /\ [][NextCraft]_vars

(***************************************************************************)
(* Scheduled events: schedule_event between ticks, from a before_tick      *)
(* hook, and from the callback of another event.                           *)
(***************************************************************************)
\* the events listed at a time, and the longest interval of a recurring one
MaxEvents == 2
MaxInterval == 2

\* the names given to schedule_event, and what the callbacks given to it do
EventNamePool == {"e1", "e2"}
EventCallbacks == {"record", "schedule_now"}

\* TickEngine.schedule_event, called between two ticks
schedule(tick, callback, name, recurring, interval) ==
     /\ Len(scheduled_events) < MaxEvents
     /\ name \notin event_names(scheduled_events)
     /\ scheduled_events' =
          Append(scheduled_events,
                 ScheduledEvent(tick, callback, name, recurring, interval))
     /\ UNCHANGED <<ivars, current_tick, running, paused, tick_history,
                    agent_order_seed, hooks, action_provider, pc, ticks_run,
                    num_ticks, stats_list, first_run, stop_condition, trace,
                    xvars>>

schedule_event ==
  \E tick \in current_tick..MaxTick, callback \in EventCallbacks,
     name \in EventNamePool, recurring \in BOOLEAN, interval \in 0..MaxInterval :
     /\ recurring \/ interval = 0
     /\ schedule(tick, callback, name, recurring, interval)

InitEvents ==
  \E installed \in SUBSET {"scheduler"} :
     /\ WorldInit(NoInventories)
     /\ TickEngineInit(<<>>, installed, "idle")
     /\ first_run = NotRun(NoInventories)
     /\ engines = [e \in EngineIds |-> NewEngine(<<>>)]
     /\ LimiterIdle

NextEvents ==
  \/ schedule_event
  \/ execute_tick

SpecEvents == InitEvents /\ [][NextEvents]_vars

(***************************************************************************)
(* The engine with events that are cancelled: between two ticks, by a      *)
(* before_tick hook, by the callback of an event.                          *)
(***************************************************************************)
CancellingCallbacks == {"record", "cancel_self", "cancel_others"}

\* an event is scheduled for this tick or the next, once or for every tick
schedule_cancelling_event ==
  \E tick \in current_tick..(current_tick + 1),
     callback \in CancellingCallbacks, name \in EventNamePool,
     recurring \in BOOLEAN :
     /\ tick <= MaxTick
     /\ schedule(tick, callback, name, recurring, IF recurring THEN 1 ELSE 0)

\* TickEngine.cancel_event, called between two ticks for an event listed
cancel_event ==
  \E name \in event_names(scheduled_events) :
     /\ scheduled_events' =
          SelectSeq(scheduled_events, LAMBDA e : e.name # name)
     /\ outcome' = [type |-> "CANCEL_EVENT", result |-> "TRUE",
                    message |-> name, count |-> 0]
     /\ UNCHANGED <<agents, location, inventory, pending_trades, skills,
                    richness, current_tick, running, paused, tick_history,
                    agent_order_seed, hooks, action_provider, pc, ticks_run,
                    num_ticks, stats_list, first_run, stop_condition, trace,
                    xvars>>

InitCancel ==
  \E installed \in SUBSET {"canceller"} :
     /\ WorldInit(NoInventories)
     /\ TickEngineInit(<<>>, installed, "idle")
     /\ first_run = NotRun(NoInventories)
     /\ engines = [e \in EngineIds |-> NewEngine(<<>>)]
     /\ LimiterIdle

NextCancel ==
  \/ schedule_cancelling_event
  \/ cancel_event
  \/ execute_tick

SpecCancel == InitCancel /\ [][NextCancel]_vars

(***************************************************************************)
(* run(num_ticks, stop_condition) with hooks that call stop() and pause()  *)
(* while a tick executes.                                                  *)
(***************************************************************************)
\* TickEngine.run(n, p) up to its loop
run_until ==
  \E n \in 0..NumTicks, p \in StopConditions :
     /\ pc = "idle"
     /\ pc' = "run"
     /\ running' = TRUE
     /\ stats_list' = <<>>
     /\ ticks_run' = 0
     /\ num_ticks' = n
     /\ stop_condition' = p
     /\ UNCHANGED <<ivars, current_tick, paused, tick_history, agent_order_seed,
                    hooks, action_provider, first_run, scheduled_events, trace,
                    xvars>>

InitControl ==
  \E installed \in SUBSET {"stop", "pause"} :
     /\ WorldInit(NoInventories)
     /\ TickEngineInit(<<>>, installed, "idle")
     /\ first_run = NotRun(NoInventories)
     /\ engines = [e \in EngineIds |-> NewEngine(<<>>)]
     /\ LimiterIdle

NextControl ==
  \/ run_until
  \/ run_tick
  \/ run_return
  \/ resume

SpecControl == InitControl /\ [][NextControl]_vars

(***************************************************************************)
(* LifecycleHookManager: register, unregister and execute_phase.           *)
(***************************************************************************)
\* LifecycleHookManager._max_history is 1000; the model keeps a history of
\* this length, so that the history is cut within a few calls
hook_max_history == 3

\* the hooks of the model: LifecycleHook objects with their name and
\* priority, the phase the HookResult of their execute names, and whether
\* their execute raises
LifecycleHooks ==
  {[name |-> "h1", priority |-> 0, phase |-> "AFTER_TICK", raises |-> FALSE],
   [name |-> "h2", priority |-> 0, phase |-> "AFTER_TICK", raises |-> TRUE],
   [name |-> "h3", priority |-> 1, phase |-> "BEFORE_TICK", raises |-> FALSE]}

\* HookResult.__init__ (duration_ms and data are not modelled)
HookResult(success, hook_name, phase, error) ==
  [success |-> success, hook_name |-> hook_name, phase |-> phase,
   error |-> error]

\* LifecycleHook.__call__ of an enabled hook: the result of execute, or for
\* an execute that raised e a failed result with str(e)
hook_call(hook) ==
  IF hook.raises
  THEN HookResult(FALSE, hook.name, "BEFORE_TICK", "boom")
  ELSE HookResult(TRUE, hook.name, hook.phase, "")

\* a sort that puts a hook before the hooks of its priority
insert_before_equal(sorted, hook) ==
  LET k == Cardinality({i \in DOMAIN sorted :
                          sorted[i].priority > hook.priority})
  IN  SubSeq(sorted, 1, k) \o <<hook>> \o SubSeq(sorted, k + 1, Len(sorted))

\* one step of the stable sort: hook goes behind the hooks of sorted whose
\* priority is not lower than its own
insert_by_priority(sorted, hook) ==
  LET k == Cardinality({i \in DOMAIN sorted :
                          sorted[i].priority >= hook.priority})
  IN  SubSeq(sorted, 1, k) \o <<hook>> \o SubSeq(sorted, k + 1, Len(sorted))

\* "list.sort(key=lambda h: -h.priority)": Python's sort is stable
RECURSIVE sort_by_priority(_)
sort_by_priority(list) ==
  IF list = <<>> THEN <<>>
  ELSE insert_by_priority(sort_by_priority(SubSeq(list, 1, Len(list) - 1)),
                          list[Len(list)])

\* "list.remove(hook)": the first element equal to hook is taken out
remove_hook(list, hook) ==
  LET k == CHOOSE i \in DOMAIN list :
             list[i] = hook /\ \A j \in 1..(i - 1) : list[j] # hook
  IN  SubSeq(list, 1, k - 1) \o SubSeq(list, k + 1, Len(list))

\* the hook is in the list
listed(list, hook) == \E i \in DOMAIN list : list[i] = hook

\* LifecycleHookManager.register(phase, hook), for a hook not in the list
register ==
  \E phase \in HookPhases, hook \in LifecycleHooks :
     /\ ~listed(hook_lists[phase], hook)
     /\ hook_lists' = [hook_lists EXCEPT
                         ![phase] = sort_by_priority(Append(@, hook))]
     /\ registered' = [registered EXCEPT ![phase] = Append(@, hook)]
     /\ UNCHANGED <<ivars, evars, engines, rate_limiter, success_run,
                    execution_history, timers>>

\* LifecycleHookManager.unregister(phase, hook)
unregister ==
  \E phase \in HookPhases, hook \in LifecycleHooks :
     /\ IF listed(hook_lists[phase], hook)
        THEN /\ hook_lists' = [hook_lists EXCEPT
                                 ![phase] = remove_hook(@, hook)]
             /\ registered' = [registered EXCEPT
                                 ![phase] = remove_hook(@, hook)]
        ELSE UNCHANGED <<hook_lists, registered>>
     /\ UNCHANGED <<ivars, evars, engines, rate_limiter, success_run,
                    execution_history, timers>>

\* the loop of execute_phase left at the first failed result
RECURSIVE run_hooks_until_failure(_, _, _)
run_hooks_until_failure(history, list, phase) ==
  IF list = <<>> THEN history
  ELSE LET result == [hook_call(Head(list)) EXCEPT !.phase = phase]
       IN  IF result.success
           THEN run_hooks_until_failure(Append(history, result), Tail(list),
                                        phase)
           ELSE Append(history, result)

\* lines 271-275: every hook of the list is called, its result gets the
\* phase executed and is appended to the history
RECURSIVE run_hooks(_, _, _)
run_hooks(history, list, phase) ==
  IF list = <<>> THEN history
  ELSE run_hooks(Append(history,
                        [hook_call(Head(list)) EXCEPT !.phase = phase]),
                 Tail(list), phase)

\* lines 277-278: the history keeps its last _max_history results
cut_history(history) ==
  IF Len(history) > hook_max_history
  THEN SubSeq(history, Len(history) - hook_max_history + 1, Len(history))
  ELSE history

\* LifecycleHookManager.execute_phase(phase, engine, tick)
execute_phase ==
  \E phase \in HookPhases :
     /\ execution_history' =
          cut_history(run_hooks(execution_history, hook_lists[phase], phase))
     /\ UNCHANGED <<ivars, evars, engines, rate_limiter, success_run,
                    hook_lists, registered, timers>>

InitHooks ==
  /\ WorldInit(NoInventories)
  /\ TickEngineInit(<<>>, {}, "idle")
  /\ first_run = NotRun(NoInventories)
  /\ engines = [e \in EngineIds |-> NewEngine(<<>>)]
  /\ LimiterIdle

NextHooks ==
  \/ register
  \/ unregister
  \/ execute_phase

SpecHooks == InitHooks /\ [][NextHooks]_vars

(***************************************************************************)
(* Properties of the interpreter.                                          *)
(***************************************************************************)
\* the entries of the ledger
Live(trades) == {p \in ProposalIds : trades[p] # NoTrade}

\* an accepting AcceptTrade by the target of a live proposal
Settles(action) ==
  /\ action.action_type = "ACCEPT_TRADE"
  /\ validate(action) = <<>>
  /\ action.accept
  /\ pending_trades[action.proposal_id] # NoTrade
  /\ action.agent_id = pending_trades[action.proposal_id].target_id

\* the holder has less than a listed quantity of some listed item
Short(inv, a, items) ==
  \E k \in 1..Len(items) : inv[a][items[k].item_type] < items[k].quantity

\* the quantity of an item a list names, all its entries together
RECURSIVE Listed(_, _)
Listed(items, i) ==
  IF items = <<>> THEN 0
  ELSE (IF Head(items).item_type = i THEN Head(items).quantity ELSE 0)
         + Listed(Tail(items), i)

\* the inventories after every transfer of the proposal is applied in full
Settled(inv, proposal) ==
  [a \in Agents |-> [i \in Items |->
     IF a = proposal.proposer_id
     THEN inv[a][i] - Listed(proposal.offered_items, i)
                    + Listed(proposal.requested_items, i)
     ELSE IF a = proposal.target_id
     THEN inv[a][i] + Listed(proposal.offered_items, i)
                    - Listed(proposal.requested_items, i)
     ELSE inv[a][i]]]

\* C1: a settlement that returns SUCCESS leaves, for every item type, the
\* quantity proposer and target hold together as it was before.
C1_Conservation ==
  [][\A action \in LedgerAcceptActions :
       ( /\ outcome'.type = "ACCEPT_TRADE" /\ outcome'.result = "SUCCESS"
         /\ Settles(action) /\ Executes(action) ) =>
         LET proposal == pending_trades[action.proposal_id]
         IN  \A i \in Items :
               inventory'[proposal.proposer_id][i] + inventory'[proposal.target_id][i]
                 = inventory[proposal.proposer_id][i] + inventory[proposal.target_id][i]
    ]_vars

\* C2: a settlement either applies every transfer of the pending trade in
\* full to both parties and returns SUCCESS, or leaves every inventory as it was.
C2_AllOrNothing ==
  [][\A action \in LedgerAcceptActions :
       (outcome'.type = "ACCEPT_TRADE" /\ Settles(action) /\ Executes(action)) =>
          \/ /\ outcome'.result = "SUCCESS"
             /\ inventory' = Settled(inventory, pending_trades[action.proposal_id])
          \/ inventory' = inventory
    ]_vars

\* C3: every agent's total inventory is at most its capacity, in every state
\* the interpreter's actions reach.
C3_Capacity ==
  \A a \in Agents : inventory_count(inventory, a) <= capacity[a]

\* an agent is full after a Harvest that was cut to the space left
C3_Witness ==
  /\ outcome.type = "HARVEST" /\ outcome.result = "PARTIAL"
  /\ \E a \in agents : inventory_space(inventory, a) = 0

\* C4: no inventory quantity is ever negative.
C4_NonNegative ==
  \A a \in Agents : \A i \in Items : inventory[a][i] >= 0

\* a settlement has taken the proposer's last unit of an item
C4_Witness ==
  /\ outcome.type = "ACCEPT_TRADE" /\ outcome.message = "Trade completed"
  /\ \E a \in agents : inventory[a]["wheat"] = 0 /\ inventory[a]["wood"] > 0

\* a valid Move of a registered agent to a destination outside the neighbor
\* set of where the agent is
MoveOffGraph(action) ==
  /\ action.action_type = "MOVE"
  /\ validate(action) = <<>>
  /\ action.agent_id \in agents
  /\ action.destination \notin get_neighbors(location[action.agent_id])

C6_Lifecycle ==
  [][ /\ \A action \in LedgerAcceptActions :
            ( /\ outcome'.type = "ACCEPT_TRADE"
              /\ validate(action) = <<>> /\ Executes(action) ) =>
               LET p == action.proposal_id
               IN  IF pending_trades[p] = NoTrade
                   THEN /\ outcome'.result = "FAILURE"
                        /\ pending_trades' = pending_trades
                        /\ inventory' = inventory
                   ELSE IF action.agent_id = pending_trades[p].target_id
                   THEN /\ Live(pending_trades') = Live(pending_trades) \ {p}
                        /\ Cardinality(Live(pending_trades'))
                             = Cardinality(Live(pending_trades)) - 1
                        /\ \A q \in ProposalIds \ {p} :
                             pending_trades'[q] = pending_trades[q]
                   ELSE pending_trades' = pending_trades
      /\ \A p \in ProposalIds :
            (outcome'.type = "CANCEL" /\ cancel(p)) =>
               IF pending_trades[p] = NoTrade
               THEN outcome'.result = "FALSE" /\ pending_trades' = pending_trades
               ELSE /\ outcome'.result = "TRUE"
                    /\ Cardinality(Live(pending_trades'))
                         = Cardinality(Live(pending_trades)) - 1
                    /\ \A q \in ProposalIds \ {p} :
                         pending_trades'[q] = pending_trades[q]
      /\ \A current_time \in 0..(MaxTime + 2) :
            (outcome'.type = "EXPIRE" /\ clear_expired(current_time, 1)) =>
               /\ Cardinality(Live(pending_trades'))
                    = Cardinality(Live(pending_trades)) - outcome'.count
               /\ \A q \in Live(pending_trades') :
                    pending_trades'[q] = pending_trades[q]
    ]_vars

\* a settlement has removed its entry and left the other proposal pending
C6_Witness ==
  /\ outcome.type = "ACCEPT_TRADE"
  /\ outcome.message = "Trade completed"
  /\ Cardinality(Live(pending_trades)) = 1

\* C7: a pending trade stays in the ledger as registered until an accept, a
\* reject, a cancel or an expiry sweep removes it; nothing else removes or
\* replaces it.
C7_EntryStable ==
  [][\A p \in ProposalIds :
       (pending_trades[p] # NoTrade /\ pending_trades'[p] # pending_trades[p]) =>
          /\ pending_trades'[p] = NoTrade
          /\ outcome'.type \in {"ACCEPT_TRADE", "CANCEL", "EXPIRE"}
    ]_vars

\* C8: an accepting AcceptTrade by the target, with both parties registered
\* and the proposer short of an offered quantity or the target short of a
\* requested one, returns FAILURE, removes the pending trade and changes no
\* inventory.
C8_Shortfall ==
  [][\A action \in LedgerAcceptActions :
       LET proposal == pending_trades[action.proposal_id]
       IN  ( /\ outcome'.type = "ACCEPT_TRADE"
             /\ Settles(action)
             /\ proposal.proposer_id \in agents /\ proposal.target_id \in agents
             /\ \/ Short(inventory, proposal.proposer_id, proposal.offered_items)
                \/ Short(inventory, proposal.target_id, proposal.requested_items)
             /\ Executes(action) ) =>
              /\ outcome'.result = "FAILURE"
              /\ pending_trades' = [pending_trades EXCEPT ![action.proposal_id] = NoTrade]
              /\ inventory' = inventory
    ]_vars

\* the target no longer held what the proposal requests
C8_Witness ==
  /\ outcome.type = "ACCEPT_TRADE" /\ outcome.result = "FAILURE"
  /\ outcome.message = "Target no longer has sufficient"

(***************************************************************************)
(* Properties of the Tick Engine.                                          *)
(***************************************************************************)
\* the tick numbers of a list of TickStats go up by one from each to the next
Consecutive(stats) ==
  \A k \in 1..(Len(stats) - 1) : stats[k + 1].tick = stats[k].tick + 1

\* C9: current_tick is 0 when the engine is built; every execute_tick that
\* completes (its TickStats joins tick_history) carries the tick it ran and
\* leaves current_tick one higher; the list run returns has consecutive tick
\* numbers.
C9_TickNumbers ==
  /\ current_tick = 0
  /\ [][ /\ Len(tick_history') = Len(tick_history) + 1 =>
              /\ current_tick' = current_tick + 1
              /\ tick_history'[Len(tick_history')].tick = current_tick
         /\ Consecutive(stats_list')
         /\ pc' = "idle" /\ pc = "run" => Consecutive(stats_list)
       ]_vars

\* a run that started after an earlier tick has returned two TickStats or more
C9_Witness ==
  /\ pc = "idle"
  /\ Len(stats_list) >= 2
  /\ stats_list[1].tick > 0

\* both runs of the replay have returned
BothReturned ==
  /\ first_run.finished
  /\ pc = "idle"
  /\ ticks_run = NumTicks

\* C10: the two runs return the same TickStats sequence and leave the same
\* agent states.
C10_Determinism ==
  BothReturned =>
    /\ stats_list = first_run.stats
    /\ agents = first_run.agents
    /\ location = first_run.location
    /\ inventory = first_run.inventory

\* the part of C10 about agent states alone: the two runs leave the same
\* locations and inventories
C10_FinalAgentStates ==
  BothReturned =>
    /\ location = first_run.location
    /\ inventory = first_run.inventory

\* C14: a Harvest of a resource the agent's location has (richness > 0) adds
\* min(requested amount, remaining inventory space, richness) to the agent's
\* inventory, which is the amount_harvested it reports; the result is SUCCESS
\* when that is the requested amount and PARTIAL when it is less (and not 0).
C14_HarvestAmount ==
  [][\A action \in HarvestActions :
       ( /\ outcome'.type = "HARVEST"
         /\ validate(action) = <<>>
         /\ Executes(action)
         /\ get_agent(State, action.agent_id)
         /\ get_node(location[action.agent_id])
         /\ action.resource_type \in Items
         /\ resource_richness[location[action.agent_id]][action.resource_type] > 0 )
       => LET a == action.agent_id
              capped == Min(action.amount,
                            Min(inventory_space(inventory, a),
                                resource_richness[location[a]][action.resource_type]))
          IN  /\ inventory'[a][action.resource_type]
                   = inventory[a][action.resource_type] + capped
              /\ capped = action.amount => outcome'.result = "SUCCESS"
              /\ (0 < capped /\ capped < action.amount)
                   => outcome'.result = "PARTIAL"
    ]_vars

\* every action the decision source submits
SubmittedActions ==
  MoveActions \cup HarvestActions \cup CraftActions \cup MessageActions
    \cup TradeProposalActions \cup AcceptTradeActions \cup GroupActions
    \cup IdleActions

\* those of them validate() finds errors in
InvalidActions == {action \in SubmittedActions : validate(action) # <<>>}

\* C15: execute of an action whose validate() returns errors returns INVALID
\* and leaves every agent's location and inventory, the registered agents and
\* the ledger of pending trades as they were, in whatever state it is called.
C15_InvalidNoMutation ==
  [][\A action \in InvalidActions :
       ( /\ outcome'.type = action.action_type
         /\ Executes(action) )
       => /\ outcome'.result = "INVALID"
          /\ UNCHANGED <<agents, location, inventory, pending_trades, skills,
                         richness>>
    ]_vars

\* an INVALID outcome in a world with a placed agent, a held item and a live
\* proposal
C15_Witness ==
  /\ outcome.result = "INVALID"
  /\ outcome.type = "HARVEST"
  /\ location["a"] = "farm"
  /\ inventory["a"]["wheat"] = 1
  /\ Live(pending_trades) # {}

\* C16: no exception raised while execute(action) processes the action
\* leaves execute; it comes back as a FAILURE outcome that carries the
\* exception's message.
C16_NoFaultEscapes ==
  [][\A action \in MalformedActions :
       ( /\ outcome'.type = action.action_type
         /\ Executes(action) )
       => /\ outcome'.result = "FAILURE"
          /\ outcome'.message = action.error
    ]_vars

(***************************************************************************)
(* Properties of the visiting order.                                       *)
(***************************************************************************)
\* order holds every element of ids once and nothing else
IsPermutation(order, ids) ==
  /\ Len(order) = Len(ids)
  /\ \A k \in 1..Len(ids) : \E j \in 1..Len(order) : order[j] = ids[k]

\* the position of an id in Python's str order
Rank(id) == CHOOSE k \in 1..Len(SortedIds) : SortedIds[k] = id

Lexicographic(order) ==
  \A j, k \in 1..Len(order) : j < k => Rank(order[j]) < Rank(order[k])

\* the engine has executed a tick
Visited(e) == engines[e].visited # <<>>

\* what the order of the engine's last tick was drawn with: nothing when the
\* seed is unset, and otherwise agent_order_seed + current_tick
OrderKey(e) ==
  IF engines[e].agent_order_seed = <<>> THEN <<>>
  ELSE <<engines[e].agent_order_seed[1] + engines[e].visited[1].tick>>

\* C11: the order a tick visits the agents in is a permutation of the agent
\* list; it is the lexicographic one when agent_order_seed is unset; and two
\* engines with the same agent list, both unseeded or with the same
\* agent_order_seed + current_tick, visit the agents in the same order.
C11_AgentOrder ==
  /\ \A e \in EngineIds :
        Visited(e) =>
          /\ IsPermutation(engines[e].visited[1].order, engines[e].agent_ids)
          /\ engines[e].agent_order_seed = <<>> =>
                Lexicographic(engines[e].visited[1].order)
  /\ ( /\ Visited(1) /\ Visited(2)
       /\ engines[1].agent_ids = engines[2].agent_ids
       /\ OrderKey(1) = OrderKey(2) )
     => engines[1].visited[1].order = engines[2].visited[1].order

\* two engines with different seeds and ticks but the same sum have visited
\* the same three agents in the same order, which is not the spawn order
C11_Witness ==
  /\ Visited(1) /\ Visited(2)
  /\ engines[1].agent_order_seed # <<>> /\ engines[2].agent_order_seed # <<>>
  /\ engines[1].agent_order_seed # engines[2].agent_order_seed
  /\ OrderKey(1) = OrderKey(2)
  /\ engines[1].agent_ids = <<"b", "c", "a">>
  /\ engines[2].agent_ids = engines[1].agent_ids
  /\ engines[1].visited[1].order # engines[1].agent_ids
  /\ engines[1].visited[1].order = engines[2].visited[1].order

(***************************************************************************)
(* Properties of the RateLimiter.                                          *)
(***************************************************************************)
\* the denial names a rest
NamesRest(message) == message \in {RestReason, NightReason}

\* the step is a record_request_success(agent_id)
Succeeds(agent_id) ==
  /\ outcome'.type = "RECORD_SUCCESS"
  /\ rate_limiter' = record_request_success(rate_limiter, agent_id)
  /\ success_run' = [success_run EXCEPT ![agent_id] = @ + 1]

\* C12: with mandatory rest enabled, a record_request_success leaves the
\* agent in mandatory rest exactly when it is the agent's Nth success in a
\* row since its last error (N = mandatory_rest_interval, every Nth counted),
\* and a can_make_request for an agent in mandatory rest, its cooldown over,
\* returns False with a reason that names the rest.
C12_MandatoryRest ==
  [][ /\ \A agent_id \in Agents :
           ( /\ Succeeds(agent_id)
             /\ rate_limiter.enable_mandatory_rest
             /\ agent_id \notin rate_limiter.resting_agents )
           => ( agent_id \in rate_limiter'.resting_agents
                  <=> success_run'[agent_id] % rate_limiter.mandatory_rest_interval = 0 )
      /\ \A agent_id \in Agents : \A clock \in Clocks :
           ( /\ outcome'.type = "CAN_MAKE_REQUEST"
             /\ agent_id \in rate_limiter.resting_agents
             /\ ~clock.on_cooldown
             /\ outcome' = Returned("CAN_MAKE_REQUEST",
                   IF can_make_request(rate_limiter, agent_id, clock)[1]
                   THEN "TRUE" ELSE "FALSE",
                   can_make_request(rate_limiter, agent_id, clock)[2]) )
           => outcome'.result = "FALSE" /\ NamesRest(outcome'.message)
    ]_vars

\* the first tick after the night
NightEnd(rl) == rl.night_start_tick + rl.night_duration_ticks

\* C13: the error that brings the errors of a tick to three starts night
\* mode at the current tick; night mode is then on at every tick from
\* night_start_tick to night_start_tick + night_duration_ticks - 1 and at no
\* later tick: it is left only at a set_tick, the first one that announces a
\* tick >= night_start_tick + night_duration_ticks.
C13_NightMode ==
  /\ [](is_night_mode(rate_limiter) =>
          /\ rate_limiter.night_start_tick <= rate_limiter.current_tick
          /\ rate_limiter.current_tick < NightEnd(rate_limiter))
  /\ [][ /\ ( /\ outcome'.type = "RECORD_ERROR"
               /\ rate_limiter'.error_count_this_tick >= error_threshold_for_night )
             => /\ is_night_mode(rate_limiter')
                /\ rate_limiter'.night_start_tick = rate_limiter.current_tick
                /\ rate_limiter'.night_duration_ticks = night_duration_default
         /\ ( is_night_mode(rate_limiter) /\ ~is_night_mode(rate_limiter') )
             => /\ outcome'.type = "SET_TICK"
                /\ rate_limiter'.current_tick >= NightEnd(rate_limiter)
         /\ ( /\ outcome'.type = "SET_TICK"
              /\ is_night_mode(rate_limiter)
              /\ rate_limiter'.current_tick >= NightEnd(rate_limiter) )
             => ~is_night_mode(rate_limiter')
       ]_vars

\* three errors at tick 1 started a night that lasted through tick 5 and
\* ended when tick 6 was announced
C13_Witness ==
  /\ ~is_night_mode(rate_limiter)
  /\ rate_limiter.night_start_tick = 1
  /\ rate_limiter.current_tick = NightEnd(rate_limiter)
  /\ outcome.type = "SET_TICK"

(***************************************************************************)
(* Properties of the engine under callbacks that raise.                    *)
(***************************************************************************)
\* the step is a call of execute_tick: nothing else writes these
TickStep ==
  \/ outcome' # outcome
  \/ ivars' # ivars
  \/ current_tick' # current_tick
  \/ tick_history' # tick_history

\* C17: an execute_tick runs to its end whatever raises in a hook, in a
\* scheduled event's callback or in an action handler: every agent is
\* processed, one TickStats for the tick is appended to the history, and
\* current_tick is one more than before.
C17_TickCompletes ==
  [][ TickStep =>
        /\ outcome'.result = "DONE"
        /\ current_tick' = current_tick + 1
        /\ Len(tick_history') = Len(tick_history) + 1
        /\ LET stats == tick_history'[Len(tick_history')]
           IN  /\ stats.tick = current_tick
               /\ stats.agents_processed = Cardinality(agents)
               /\ stats.actions_executed = Cardinality(agents)
    ]_vars

\* a tick has completed with a raising callback under every hook name, a
\* raising scheduled event and an action whose handler raised: the action
\* counts as failed and the agent after it was processed
C17_Witness ==
  /\ hooks = AllRaising
  /\ action_provider = "faulty"
  /\ current_tick = 1
  /\ Len(tick_history) = 1
  /\ tick_history[1].actions_failed = 1
  /\ tick_history[1].actions_succeeded = 1
  /\ location = [a \in Agents |-> IF a = "b" THEN "farm" ELSE ""]

(***************************************************************************)
(* Properties of the engine over the LLMActionProvider.                    *)
(***************************************************************************)
\* the requests, successes and errors the limiter has recorded
Recorded(rl) ==
  [a \in Agents |->
     [total_requests |-> rl.agent_cooldowns[a].total_requests,
      successful_requests |-> rl.agent_cooldowns[a].successful_requests,
      consecutive_errors |-> rl.agent_cooldowns[a].consecutive_errors,
      error_count_this_tick |-> rl.error_count_this_tick]]

\* all the requests the limiter has seen started
Requests(rl) == rl.agent_cooldowns["a"].total_requests
                  + rl.agent_cooldowns["b"].total_requests

\* C18: where can_make_request denies the agent, get_action returns an Idle
\* whose reason is the denial's, the limiter has no request start, success or
\* error more than when the tick was announced to it, and the engine, having
\* executed the Idle, counts one succeeded action, no failed action and no
\* llm_error.  Over a whole tick: only the agents that were not denied have a
\* request started, and the resting agents are among the succeeded actions.
C18_DenialIsRest ==
  /\ [](\A agent_id \in agents :
        \A choice \in [clock : Clocks, success : BOOLEAN] :
          \A tick \in {rate_limiter.current_tick, current_tick} :
            LET announced == set_tick(rate_limiter, tick)
                denial == can_make_request(announced, agent_id, choice.clock)
                p == llm_get_action(rate_limiter, success_run, agent_id, tick,
                                    choice)
                acc == count(TickStart(State, rate_limiter, success_run),
                             execute(State, p.action), p)
            IN  ~denial[1] =>
                  /\ p.action = IdleAction(agent_id, denial[2])
                  /\ p.is_rest /\ ~p.llm_error
                  /\ p.rl = announced
                  /\ Recorded(p.rl) = Recorded(announced)
                  /\ acc.actions_executed = 1
                  /\ acc.actions_succeeded = 1
                  /\ acc.actions_failed = 0
                  /\ acc.llm_errors = 0
                  /\ acc.agents_resting = 1)
  /\ [][ TickStep =>
           LET stats == tick_history'[Len(tick_history')]
           IN  /\ Requests(rate_limiter') - Requests(rate_limiter)
                    = stats.agents_processed - stats.agents_resting
               /\ stats.agents_resting <= stats.actions_succeeded
               /\ stats.llm_errors <= stats.actions_failed
               /\ stats.actions_succeeded + stats.actions_failed
                    = stats.actions_executed
     ]_vars

\* a tick in which both agents were denied: two Idles executed, both counted
\* as succeeded, none failed, no llm_error, and no request ever started
C18_Witness ==
  /\ Len(tick_history) = 1
  /\ tick_history[1].agents_resting = 2
  /\ tick_history[1].actions_succeeded = 2
  /\ tick_history[1].actions_failed = 0
  /\ tick_history[1].llm_errors = 0
  /\ Requests(rate_limiter) = 0

(***************************************************************************)
(* Properties of rejects and proposals.                                    *)
(***************************************************************************)
\* a valid AcceptTrade with accept = false that names a live proposal id
Rejects(action) ==
  /\ action.action_type = "ACCEPT_TRADE"
  /\ validate(action) = <<>>
  /\ ~action.accept
  /\ pending_trades[action.proposal_id] # NoTrade

OtherActions(p) ==
  LedgerCraftActions
    \cup {action \in LedgerAcceptActions \cup LedgerProposalActions :
            action.proposal_id # p}

\* the entry of p holds nothing back: every other action has the outcome and
\* leaves the inventories it would if p were not in the ledger
Spendable(st, p) ==
  \A other \in OtherActions(p) :
     LET with == execute(st, other)
         without == execute(del_pending_trade(st, p), other)
     IN  /\ with.result = without.result
         /\ with.message = without.message
         /\ with.st.inventory = without.st.inventory

\* C20: a TradeProposal changes no inventory; on SUCCESS the ledger has one
\* entry more than before, the one keyed by the proposal id, and the other
\* entries are as they were; on FAILURE the ledger is unchanged; and after it
\* the offered items are as spendable by any other action as without the
\* proposal.
C20_ProposalReservesNothing ==
  [][\A action \in LedgerProposalActions :
       ( /\ outcome'.type = "TRADE_PROPOSAL"
         /\ Executes(action) ) =>
          LET p == action.proposal_id
              after == [agents |-> agents', location |-> location',
                        inventory |-> inventory',
                        pending_trades |-> pending_trades',
                        skills |-> skills', richness |-> richness']
          IN  /\ inventory' = inventory
              /\ outcome'.result \in {"SUCCESS", "FAILURE", "INVALID"}
              /\ outcome'.result = "SUCCESS" =>
                    /\ Live(pending_trades') = Live(pending_trades) \cup {p}
                    /\ Cardinality(Live(pending_trades'))
                         = Cardinality(Live(pending_trades)) + 1
                    /\ pending_trades'[p].proposer_id = action.agent_id
                    /\ pending_trades'[p].offered_items = action.offered_items
                    /\ \A q \in ProposalIds \ {p} :
                         pending_trades'[q] = pending_trades[q]
              /\ outcome'.result # "SUCCESS" =>
                    pending_trades' = pending_trades
              /\ outcome'.result = "FAILURE" <=>
                    /\ validate(action) = <<>>
                    /\ \/ action.agent_id \notin agents
                       \/ action.target_agent_id \notin agents
                       \/ Short(inventory, action.agent_id, action.offered_items)
              /\ Spendable(after, p)
    ]_vars

(***************************************************************************)
(* Properties of Move, Harvest and Craft.                                  *)
(***************************************************************************)
\* C21: a Move, Harvest or Craft that returns FAILURE leaves every agent's
\* location, inventory and skills, the registered agents, the ledger of
\* pending trades and the richness of every node as they were.
C21_FailureNoMutation ==
  [][\A action \in WorkActions :
       ( /\ outcome'.type = action.action_type
         /\ outcome'.result = "FAILURE"
         /\ Executes(action) )
       => UNCHANGED <<agents, location, inventory, skills, pending_trades,
                      richness>>
    ]_vars

\* a Craft has failed for want of space, called by an agent that has a
\* skill and holds items, with a trade pending
C21_Witness ==
  /\ outcome.type = "CRAFT" /\ outcome.result = "FAILURE"
  /\ outcome.message = "Insufficient inventory space"
  /\ \E a \in Agents : skills[a]["milling"] > 0
  /\ pending_trades["p1"] # NoTrade

\* the Harvests among the submitted actions
WorkHarvests == {action \in WorkActions : action.action_type = "HARVEST"}

\* C22: no Harvest changes the richness of any node, so every node has the
\* richness it was built with; and wherever a registered agent with free
\* inventory space stands at a node whose richness of a resource is positive,
\* a valid Harvest of that resource returns SUCCESS or PARTIAL and adds to
\* the agent's inventory, however many harvests went before.
C22_RichnessUntouched ==
  /\ [](richness = resource_richness)
  /\ [](\A action \in WorkHarvests :
          ( /\ validate(action) = <<>>
            /\ get_agent(State, action.agent_id)
            /\ get_node(location[action.agent_id])
            /\ action.resource_type \in Items
            /\ richness[location[action.agent_id]][action.resource_type] > 0
            /\ inventory_space(inventory, action.agent_id) > 0 )
          => LET r == execute(State, action)
             IN  /\ r.result \in {"SUCCESS", "PARTIAL"}
                 /\ r.st.richness = richness
                 /\ r.st.inventory[action.agent_id][action.resource_type]
                      > inventory[action.agent_id][action.resource_type])
  /\ [][\A action \in WorkHarvests :
          (outcome'.type = "HARVEST" /\ Executes(action)) => richness' = richness
       ]_vars

\* a Harvest at the farm has succeeded and left the worker with more wheat
\* than the farm's richness, which is what it was
C22_Witness ==
  /\ outcome.type = "HARVEST" /\ outcome.result = "SUCCESS"
  /\ location[Worker] = "farm"
  /\ inventory[Worker]["wheat"] > resource_richness["farm"]["wheat"]
  /\ richness["farm"]["wheat"] = resource_richness["farm"]["wheat"]

\* the Crafts among the submitted actions
WorkCrafts == {action \in WorkActions : action.action_type = "CRAFT"}

\* C23: a Craft that returns SUCCESS names a recipe of crafting_rules, was
\* called with every input of the recipe, times the quantity, in the agent's
\* inventory and with room for the net growth; it has changed the agent's
\* inventory by (outputs - inputs) x quantity in every item and every skill
\* by its gain x quantity, which is what inputs_consumed and
\* outputs_produced report, and nothing else.
C23_CraftExact ==
  [][\A action \in WorkCrafts :
       ( /\ outcome'.type = "CRAFT"
         /\ outcome'.result = "SUCCESS"
         /\ Executes(action) )
       => LET a == action.agent_id
              q == action.quantity
              r == execute(State, action)
          IN  /\ action.recipe_id \in DOMAIN crafting_rules
              /\ LET recipe == crafting_rules[action.recipe_id]
                 IN  /\ \A i \in Items : inventory[a][i] >= recipe.inputs[i] * q
                     /\ (SumItems(recipe.outputs, Items)
                           - SumItems(recipe.inputs, Items)) * q
                          <= inventory_space(inventory, a)
                     /\ \A i \in Items :
                          /\ inventory'[a][i] = inventory[a][i]
                               + (recipe.outputs[i] - recipe.inputs[i]) * q
                          /\ r.state_changes.inputs_consumed[i]
                               = recipe.inputs[i] * q
                          /\ r.state_changes.outputs_produced[i]
                               = recipe.outputs[i] * q
                          /\ inventory'[a][i] - inventory[a][i]
                               = r.state_changes.outputs_produced[i]
                                   - r.state_changes.inputs_consumed[i]
                     /\ \A k \in Skills :
                          skills'[a][k] = skills[a][k] + recipe.skill_gain[k] * q
              /\ \A b \in Agents \ {a} :
                   inventory'[b] = inventory[b] /\ skills'[b] = skills[b]
              /\ UNCHANGED <<agents, location, pending_trades, richness>>
    ]_vars

\* the worker has milled: wood in the inventory and the skill trained up to
\* what a Craft of the largest quantity gives
C23_Witness ==
  /\ outcome.type = "CRAFT" /\ outcome.result = "SUCCESS"
  /\ skills[Worker]["milling"] = MaxQuantity
  /\ inventory[Worker]["wood"] = MaxQuantity

(***************************************************************************)
(* Properties of the phases of a tick and of scheduled events.             *)
(***************************************************************************)
\* the places of trace where name was called
Calls(tr, name) == {i \in DOMAIN tr : tr[i].call = name}

\* C24: within a tick, the scheduled events due at that tick are dispatched
\* before the before_tick hooks are invoked
C24_EventsBeforeHooks ==
  \A i \in Calls(trace, "scheduled_event") :
     \A j \in Calls(trace, "before_tick") : i < j

\* the firings of the event name in the calls tr
Fired(tr, name) ==
  Cardinality({i \in Calls(tr, "scheduled_event") : tr[i].arg = name})

\* C26: an event due at the tick T that executes fires once during T, a
\* one-shot event is then removed and a recurring one is due again at
\* T + interval; an event scheduled during T for T has fired when T ends
C26_FiresOncePerDueTick ==
  [][current_tick' = current_tick + 1 =>
       /\ \A i \in DOMAIN scheduled_events :
             LET event == scheduled_events[i]
             IN  event.tick = current_tick =>
                   /\ Fired(trace', event.name) = 1
                   /\ IF event.recurring /\ event.interval > 0
                      THEN \E j \in DOMAIN scheduled_events' :
                              scheduled_events'[j] =
                                [event EXCEPT
                                   !.tick = current_tick + event.interval]
                      ELSE event.name \notin event_names(scheduled_events')
       /\ \A j \in DOMAIN scheduled_events' :
             scheduled_events'[j].tick # current_tick
  ]_vars

\* C26 for the events listed when the tick starts
C26_ListedFireOnce ==
  [][current_tick' = current_tick + 1 =>
       /\ \A i \in DOMAIN scheduled_events :
             LET event == scheduled_events[i]
             IN  /\ Fired(trace', event.name) =
                      (IF event.tick = current_tick THEN 1 ELSE 0)
                 /\ event.tick = current_tick =>
                      IF event.recurring /\ event.interval > 0
                      THEN \E j \in DOMAIN scheduled_events' :
                              scheduled_events'[j] =
                                [event EXCEPT
                                   !.tick = current_tick + event.interval]
                      ELSE event.name \notin event_names(scheduled_events')
  ]_vars

\* the place of the one call of name in the calls tr
Place(tr, name) == CHOOSE i \in Calls(tr, name) : TRUE

\* the calls made for the agents in the loop of a tick
StepCalls(tr) ==
  Calls(tr, "before_agent_action") \cup Calls(tr, "get_action")
    \cup Calls(tr, "execute") \cup Calls(tr, "after_agent_action")

\* C25: in a tick all the agent steps are over before the world_update hooks
\* are invoked, these before the after_tick hooks, the TickStats is made
\* after them, and the after_tick_complete hooks, the last call of the tick,
\* get that TickStats while _current_tick is still the number of the tick;
\* only then is _current_tick incremented
C25_PhaseOrder ==
  [][current_tick' = current_tick + 1 =>
       /\ \A name \in {"world_update", "after_tick", "TickStats",
                        "after_tick_complete"} :
             Cardinality(Calls(trace', name)) = 1
       /\ \A a \in agents : \E i \in Calls(trace', "execute") :
             trace'[i].arg = a
       /\ \A i \in StepCalls(trace') : i < Place(trace', "world_update")
       /\ Place(trace', "world_update") < Place(trace', "after_tick")
       /\ Place(trace', "after_tick") < Place(trace', "TickStats")
       /\ Place(trace', "TickStats") < Place(trace', "after_tick_complete")
       /\ Place(trace', "after_tick_complete") = Len(trace')
       /\ trace'[Len(trace')].stats = <<tick_history'[Len(tick_history')]>>
       /\ tick_history'[Len(tick_history')].tick = current_tick
       /\ \A i \in DOMAIN trace' : trace'[i].tick = current_tick
  ]_vars

\* a second tick has run over two agents
C25_Witness ==
  /\ current_tick = 2
  /\ Cardinality(Calls(trace, "execute")) = 2
  /\ Calls(trace, "after_tick_complete") # {}

\* the calls of an agent's step, in the order of the step
StepNames ==
  <<"before_agent_action", "get_action", "execute", "after_agent_action">>

\* the calls tr made for agents, in the order they were made
Steps(tr) ==
  SelectSeq(tr, LAMBDA c : \E k \in DOMAIN StepNames : c.call = StepNames[k])

\* C27: in a tick every agent registered when the order is determined gets
\* one step, and the steps do not interleave: the before_agent_action hooks,
\* one get_action, one execute and the after_agent_action hooks of an agent
\* are over before the step of the next agent starts
C27_OneStepEach ==
  [][current_tick' = current_tick + 1 =>
       LET steps == Steps(trace')
           order == get_agent_order(agent_order_seed, current_tick,
                                    list_agent_ids(agents))
       IN  /\ Len(steps) = 4 * Cardinality(agents)
           /\ \A n \in 1..Len(order) : \A k \in 1..4 :
                 /\ steps[4 * (n - 1) + k].call = StepNames[k]
                 /\ steps[4 * (n - 1) + k].arg = order[n]
           /\ \A a \in agents :
                 Cardinality({n \in 1..Len(order) : order[n] = a}) = 1
  ]_vars

\* a tick in which b had its step before a
C27_Witness ==
  \E i, j \in Calls(trace, "execute") :
     /\ i < j
     /\ trace[i].arg = "b"
     /\ trace[j].arg = "a"
     /\ trace[j + 1].call = "after_agent_action"

(***************************************************************************)
(* Properties of run, stop, pause and resume.                              *)
(***************************************************************************)
\* the tick whose calls are tr ran to its end: every agent was executed and
\* the after_tick_complete hooks were the last call
Finished(tr) ==
  /\ \A a \in agents : \E i \in Calls(tr, "execute") : tr[i].arg = a
  /\ Calls(tr, "after_tick_complete") = {Len(tr)}

\* a pass of run's loop that executes a tick
RunTicks == pc = "run" /\ ticks_run' = ticks_run + 1

\* C28: a tick of run in which a hook calls stop() goes on to its end: the
\* remaining agents are executed, the after_tick_complete hooks are invoked,
\* _current_tick is incremented and the TickStats is appended to the list
\* run returns; once _running is False run executes no further tick
C28_StopFinishesTick ==
  [][/\ RunTicks /\ "stop" \in hooks =>
          /\ ~running'
          /\ Finished(trace')
          /\ current_tick' = current_tick + 1
          /\ stats_list' = Append(stats_list, trace'[Len(trace')].stats[1])
     /\ pc = "run" /\ ~running =>
          /\ ticks_run' = ticks_run
          /\ current_tick' = current_tick
          /\ stats_list' = stats_list
  ]_vars

\* run(2) returned after one tick, in which a hook called stop()
C28_Witness ==
  /\ pc = "idle"
  /\ hooks = {"stop"}
  /\ stop_condition = "none"
  /\ num_ticks = 2
  /\ Len(stats_list) = 1
  /\ Finished(trace)

\* C29: a tick of run in which a hook calls pause() goes on to its end;
\* while _paused is True run executes no tick, _current_tick stays, and run
\* does not return unless it is stopped; the ticks run executes, before and
\* after resume(), carry consecutive numbers
C29_PauseHoldsRun ==
  /\ [](\A i \in 1..(Len(stats_list) - 1) :
          stats_list[i + 1].tick = stats_list[i].tick + 1)
  /\ [][/\ RunTicks /\ "pause" \in hooks =>
             /\ paused'
             /\ Finished(trace')
             /\ current_tick' = current_tick + 1
        /\ pc = "run" /\ paused =>
             /\ ticks_run' = ticks_run
             /\ current_tick' = current_tick
             /\ running => pc' = "run"
      ]_vars

\* a run paused in its first tick and resumed is paused again by its second
C29_Witness ==
  /\ pc = "run"
  /\ hooks = {"pause"}
  /\ paused
  /\ Len(stats_list) = 2
  /\ stats_list[2].tick = current_tick - 1

\* run is in its loop, neither stopped nor paused, and num_ticks ticks have
\* run or stop_condition is true of the engine
RunIsOver ==
  /\ running
  /\ ~paused
  /\ \/ ticks_run >= num_ticks
     \/ stop_condition = "always"
     \/ stop_condition = "at_tick" /\ current_tick >= StopTick

\* C30: run(n, p) executes a tick only when fewer than n ticks have run and
\* p, evaluated before the tick, is false; it never executes more than n
\* ticks, leaves its loop once n ticks have run or p is true, and returns
\* the TickStats of the ticks it executed
C30_RunBounds ==
  /\ [](pc = "run" =>
          /\ ticks_run <= num_ticks
          /\ Len(stats_list) = ticks_run
          /\ RunIsOver => loop_exits(running, paused, ticks_run, num_ticks,
                                     stop_condition, current_tick))
  /\ [][/\ RunTicks =>
             /\ ticks_run < num_ticks
             /\ stop_condition # "always"
             /\ stop_condition = "at_tick" => current_tick < StopTick
             /\ stats_list' =
                  Append(stats_list, tick_history'[Len(tick_history')])
        /\ pc = "run" /\ pc' = "idle" => stats_list' = stats_list
      ]_vars

\* run(n, p) returned before n ticks had run, p having become true
C30_Witness ==
  /\ pc = "idle"
  /\ hooks = {}
  /\ stop_condition = "at_tick"
  /\ Len(stats_list) = StopTick
  /\ num_ticks > StopTick
  /\ current_tick = StopTick

(***************************************************************************)
(* Properties of the LifecycleHookManager.                                 *)
(***************************************************************************)
\* the place of the hook in the sequence
PlaceOf(list, hook) == CHOOSE i \in DOMAIN list : list[i] = hook

\* execute_phase was called and has changed the history: the phase it
\* executed is the phase of the last result
ExecutesPhase(phase) ==
  /\ hook_lists' = hook_lists
  /\ execution_history' # execution_history
  /\ execution_history'[Len(execution_history')].phase = phase

\* the results the call of execute_phase(phase) left in the history, which
\* holds the last hook_max_history of them: result k is that of the hook k
\* places before the end of the list
LastResults(phase) ==
  LET list == hook_lists[phase]
      n == Min(Len(list), hook_max_history)
  IN  [k \in 1..n |->
         [result |-> execution_history'[Len(execution_history') - n + k],
          hook |-> list[Len(list) - n + k]]]

\* C31: the list of a phase holds the hooks registered for it and not
\* unregistered, in descending priority, hooks of equal priority in the
\* order they were registered; execute_phase calls them in this order
C31_PriorityOrder ==
  /\ [](\A phase \in HookPhases :
          LET list == hook_lists[phase]
              order == registered[phase]
          IN  /\ Len(list) = Len(order)
              /\ \A hook \in LifecycleHooks :
                    listed(list, hook) <=> listed(order, hook)
              /\ \A i, j \in DOMAIN list :
                    i < j =>
                      \/ list[i].priority > list[j].priority
                      \/ /\ list[i].priority = list[j].priority
                         /\ PlaceOf(order, list[i]) < PlaceOf(order, list[j]))
  /\ [][\A phase \in HookPhases :
          ExecutesPhase(phase) =>
            \A k \in DOMAIN LastResults(phase) :
               LastResults(phase)[k].result.hook_name =
                 LastResults(phase)[k].hook.name
     ]_vars

\* after registers and an unregister: h3, registered last, is called first,
\* then h2 and h1 of equal priority in the order they were registered
C31_Witness ==
  /\ Len(registered["AFTER_TICK"]) = 3
  /\ registered["AFTER_TICK"][1].name = "h2"
  /\ registered["AFTER_TICK"][2].name = "h1"
  /\ registered["AFTER_TICK"][3].name = "h3"
  /\ Len(execution_history) = 3
  /\ execution_history[1].hook_name = "h3"
  /\ execution_history[2].hook_name = "h2"
  /\ execution_history[3].hook_name = "h1"
  /\ execution_history[3].phase = "AFTER_TICK"

\* C32: execute_phase leaves in the history one result for every hook of the
\* phase, a failed one with the error for a hook whose execute raised, each
\* with the phase executed, the hooks behind a failing hook included; the
\* history then holds no more than its maximum
C32_FailureRecorded ==
  /\ [](Len(execution_history) <= hook_max_history)
  /\ [][\A phase \in HookPhases :
          ExecutesPhase(phase) =>
            /\ Len(execution_history') =
                 Min(Len(execution_history) + Len(hook_lists[phase]),
                     hook_max_history)
            /\ \A k \in DOMAIN LastResults(phase) :
                 LET result == LastResults(phase)[k].result
                     hook == LastResults(phase)[k].hook
                 IN  /\ result.hook_name = hook.name
                     /\ result.phase = phase
                     /\ result.success = ~hook.raises
                     /\ hook.raises => result.error = "boom"
     ]_vars

\* in a full history: the failed result of h2, executed in AFTER_TICK, and
\* behind it the result of h1, which ran after h2 had raised
C32_Witness ==
  /\ Len(execution_history) = hook_max_history
  /\ \E k \in 1..(Len(execution_history) - 1) :
        /\ execution_history[k] =
             HookResult(FALSE, "h2", "AFTER_TICK", "boom")
        /\ execution_history[k + 1] =
             HookResult(TRUE, "h1", "AFTER_TICK", "")

(***************************************************************************)
(* Properties of the RateLimiter's cooldowns.                              *)
(***************************************************************************)
\* the step is a record_request_error for the agent
RecordsError(agent_id) ==
  rate_limiter'.agent_cooldowns[agent_id].consecutive_errors =
    rate_limiter.agent_cooldowns[agent_id].consecutive_errors + 1

\* the error text names a rate limit: it holds "rate" or "too many" in
\* either case
NamesRateLimit(text) ==
  \E i \in 1..Len(text) :
     \/ /\ i + 3 <= Len(text)
        /\ text[i] \in {"r", "R"} /\ text[i + 1] \in {"a", "A"}
        /\ text[i + 2] \in {"t", "T"} /\ text[i + 3] \in {"e", "E"}
     \/ /\ i + 7 <= Len(text)
        /\ text[i] \in {"t", "T"} /\ text[i + 1] \in {"o", "O"}
        /\ text[i + 2] \in {"o", "O"} /\ text[i + 3] = " "
        /\ text[i + 4] \in {"m", "M"} /\ text[i + 5] \in {"a", "A"}
        /\ text[i + 6] \in {"n", "N"} /\ text[i + 7] \in {"y", "Y"}

\* min(base x 2^min(e - 1, 5), max_cooldown)
Backoff(e, max_cooldown) ==
  LET raised == base_cooldown * 2 ^ (IF e - 1 < 5 THEN e - 1 ELSE 5)
  IN  IF raised < max_cooldown THEN raised ELSE max_cooldown

\* C33: a record_request_error that brings the agent's consecutive errors
\* to e returns min(base x 2^min(e - 1, 5), max_cooldown), twice that when
\* the error text names a rate limit, and sets cooldown_until to the time of
\* the error plus what it returns; consecutive_errors is at all times the
\* number of errors recorded for the agent since its last success.
C33_Backoff ==
  /\ [](\A agent_id \in Agents :
          rate_limiter.agent_cooldowns[agent_id].consecutive_errors =
            timers.errors_since_success[agent_id])
  /\ [][\A agent_id \in Agents :
          RecordsError(agent_id) =>
            LET e == rate_limiter'.agent_cooldowns[agent_id].consecutive_errors
                duration == timers'.call.returned
            IN  /\ timers'.call.name = "record_request_error"
                /\ timers'.call.agent_id = agent_id
                /\ duration =
                     IF NamesRateLimit(timers'.call.text)
                     THEN 2 * Backoff(e, timers.max_cooldown)
                     ELSE Backoff(e, timers.max_cooldown)
                /\ timers'.cooldown_until[agent_id] = timers.now + duration
                /\ \A other \in Agents \ {agent_id} :
                     timers'.cooldown_until[other] = timers.cooldown_until[other]
        ]_vars

\* agent a's seventh error in a row, a rate limit, some time after the
\* limiter was constructed: the power is capped at 5, the result doubled
\* beyond max_cooldown
C33_Witness ==
  /\ timers.call = Called("record_request_error", "a",
                          <<"R", "a", "t", "e">>, 2 * timers.max_cooldown)
  /\ rate_limiter.agent_cooldowns["a"].consecutive_errors = MaxRecorded
  /\ timers.max_cooldown = SmallMaxCooldown
  /\ timers.now > StartTime
  /\ timers.cooldown_until["a"] = timers.now + 2 * timers.max_cooldown
  /\ rate_limiter.agent_cooldowns["a"].successful_requests = 1

\* the step is a can_make_request(agent_id): it writes nothing
AsksLimiter(agent_id) ==
  /\ timers'.call = Called("can_make_request", agent_id, <<>>, 0)
  /\ timers' = [timers EXCEPT !.call = timers'.call]
  /\ rate_limiter' = rate_limiter
  /\ outcome'.type = "CAN_MAKE_REQUEST"

\* the five conditions of a denial, at the time of the call
NightDenies == rate_limiter.is_night
CooldownDenies(agent_id) == timers.cooldown_until[agent_id] > timers.now
RestDenies(agent_id) == agent_id \in rate_limiter.resting_agents
OwnIntervalDenies(agent_id) ==
  timers.now - timers.last_request_time[agent_id] < min_request_interval
GlobalIntervalDenies ==
  timers.now - timers.last_global_request < global_min_interval

\* C34: can_make_request(agent) returns; what it returns is True exactly
\* when night mode is off, the agent's cooldown_until is not ahead of the
\* clock, the agent is not in mandatory rest, min_request_interval has
\* passed since the agent's last request and global_min_interval since
\* anyone's; a denial comes with a reason, and in night mode every agent is
\* denied.
C34_AllowedExactly ==
  [][\A agent_id \in Agents :
       AsksLimiter(agent_id) =>
         /\ outcome'.result \in {"TRUE", "FALSE"}
         /\ outcome'.result = "TRUE" <=>
               ~ ( \/ NightDenies
                   \/ CooldownDenies(agent_id)
                   \/ RestDenies(agent_id)
                   \/ OwnIntervalDenies(agent_id)
                   \/ GlobalIntervalDenies )
         /\ outcome'.result = "FALSE" <=> outcome'.message # ""
         /\ NightDenies => outcome'.result = "FALSE"
    ]_vars

\* agent b is denied for the global interval alone: agent a has just
\* started a request, b has none behind it, no cooldown and no rest
C34_Witness ==
  /\ timers.call = Called("can_make_request", "b", <<>>, 0)
  /\ outcome = Returned("CAN_MAKE_REQUEST", "FALSE", GlobalReason)
  /\ timers.last_global_request = timers.now
  /\ timers.last_request_time["a"] = timers.now
  /\ rate_limiter.agent_cooldowns["b"].total_requests = 0
  /\ ~rate_limiter.is_night

(***************************************************************************)
(* Properties of LLMActionProvider.get_action and of the mandatory rest.   *)
(***************************************************************************)
\* the step is a get_action(agent_id, tick)
GetsAction(agent_id) ==
  /\ timers'.call.name = "get_action"
  /\ timers'.call.agent_id = agent_id
  /\ timers'.now = timers.now
  /\ outcome'.type = "GET_ACTION"

\* how often the get_action of the step made the call
Made(name) == Cardinality({i \in DOMAIN trace' : trace'[i].call = name})

QuietClock ==
  [on_cooldown |-> FALSE, too_soon |-> FALSE, global_too_soon |-> FALSE]

\* C36: a mandatory rest lasts one tick: while the tick is the same the
\* resting agent stays denied, by the rest or by a night begun meanwhile;
\* once a set_tick has announced a later tick, every agent is allowed
\* again unless night mode, its cooldown or an interval denies it.
C36_RestLastsOneTick ==
  [][ /\ \A agent_id \in rate_limiter.resting_agents :
            rate_limiter'.current_tick = rate_limiter.current_tick
              => ~can_make_request(rate_limiter', agent_id, QuietClock)[1]
      /\ rate_limiter'.current_tick > rate_limiter.current_tick
            => \A agent_id \in Agents :
                 \/ is_night_mode(rate_limiter')
                 \/ can_make_request(rate_limiter', agent_id, QuietClock)[1]
    ]_vars

(***************************************************************************)
(* Properties of the answers to a pending trade.                           *)
(***************************************************************************)
\* the action answers a live entry and is not its target's
NotTheTargets(action) ==
  /\ pending_trades[action.proposal_id] # NoTrade
  /\ action.agent_id # pending_trades[action.proposal_id].target_id

\* C37: an AcceptTrade, accepting or rejecting, of an agent that is not the
\* target of the pending trade it names (the proposer, or any third agent)
\* returns FAILURE and leaves the ledger and every inventory as they were.
C37_NonTargetFails ==
  [][\A action \in ResolveAcceptActions :
       ( /\ action.agent_id # ""
         /\ NotTheTargets(action)
         /\ Executes(action) )
       => /\ outcome'.result = "FAILURE"
          /\ pending_trades' = pending_trades
          /\ inventory' = inventory
    ]_vars

\* what holds of it: nothing is changed, and the result is FAILURE unless
\* validate() rejects the action for an empty agent_id or proposal_id
C37_NonTargetChangesNothing ==
  [][\A action \in ResolveAcceptActions :
       ( NotTheTargets(action) /\ Executes(action) )
       => /\ outcome'.result =
               (IF action.agent_id = "" \/ action.proposal_id = ""
                THEN "INVALID" ELSE "FAILURE")
          /\ pending_trades' = pending_trades
          /\ inventory' = inventory
    ]_vars

\* C40: every entry of the ledger can be resolved by its target: an
\* AcceptTrade of the target, accepting or rejecting, that execute() does
\* not return INVALID for and that takes the entry out of the ledger.
C40_TargetCanResolve ==
  \A p \in LedgerKeys :
     pending_trades[p] # NoTrade =>
       \E accept \in BOOLEAN :
          LET r == execute(State,
                           AcceptTradeAction(pending_trades[p].target_id, p,
                                             accept))
          IN  /\ r.result # "INVALID"
              /\ r.st.pending_trades[p] = NoTrade

\* what holds of it: an entry under a proposal_id that is not empty is
\* taken out by either answer of its target
C40_NamedCanResolve ==
  \A p \in ProposalIds :
     pending_trades[p] # NoTrade =>
       \A accept \in BOOLEAN :
          LET r == execute(State,
                           AcceptTradeAction(pending_trades[p].target_id, p,
                                             accept))
          IN  /\ r.result # "INVALID"
              /\ r.st.pending_trades[p] = NoTrade

(***************************************************************************)
(* Properties of cancel_event.                                             *)
(***************************************************************************)
\* the step is a call of execute_tick
TickRuns ==
  /\ outcome'.type = "TICK"
  /\ outcome' # outcome \/ trace' # trace \/ tick_history' # tick_history

\* the events of the calls of this name in the trace
Named(tr, call) == {tr[i].arg : i \in {k \in DOMAIN tr : tr[k].call = call}}

\* C38: once cancel_event(event) has returned True, the event's callback
\* is not invoked again, and the tick in which an event was cancelled by a
\* hook or by the callback of an event runs to its end: within a tick no
\* call of the callback follows the cancellation of its event, an event
\* cancelled between two ticks is off the list, and every execute_tick
\* returns with its TickStats and _current_tick incremented.
C38_CancelledNeverFires ==
  [][ /\ TickRuns =>
            /\ \A i \in DOMAIN trace' : \A j \in DOMAIN trace' :
                  ( /\ trace'[i].call = "cancel_event"
                    /\ trace'[j].call = "scheduled_event"
                    /\ trace'[j].arg = trace'[i].arg )
                  => j < i
            /\ outcome'.result = "DONE"
            /\ current_tick' = current_tick + 1
      /\ ( outcome'.type = "CANCEL_EVENT" /\ outcome' # outcome )
            => outcome'.message \notin event_names(scheduled_events')
    ]_vars

\* what holds of it: an event cancelled between two ticks is off the list,
\* and in a tick in which no callback of an event cancels an event, no
\* cancelled event is called and the tick runs to its end
C38_CancelledBeforeDispatch ==
  [][ /\ ( outcome'.type = "CANCEL_EVENT" /\ outcome' # outcome )
            => outcome'.message \notin event_names(scheduled_events')
      /\ TickRuns =>
            \/ \E i \in DOMAIN trace' :
                  /\ trace'[i].call = "cancel_event"
                  /\ \E j \in 1..(i - 1) : trace'[j].call = "scheduled_event"
            \/ /\ outcome'.result = "DONE"
               /\ current_tick' = current_tick + 1
               /\ Named(trace', "scheduled_event")
                    \subseteq event_names(scheduled_events)
                                \ Named(trace', "cancel_event")
    ]_vars

(***************************************************************************)
(* Properties of the counters of a TickStats.                              *)
(***************************************************************************)
\* ActionOutcome.succeeded
Succeeded(result) == result \in {"SUCCESS", "PARTIAL"}

\* C39: in every TickStats of the history actions_succeeded and
\* actions_failed add up to actions_executed, which is agents_processed;
\* and whatever the provider returns for an agent, the executed action is
\* counted once, as succeeded exactly when its outcome is SUCCESS or PARTIAL
\* and the provider's metadata carry no llm_error, as failed otherwise.
C39_CountersAddUp ==
  /\ \A i \in DOMAIN tick_history :
        LET stats == tick_history[i]
        IN  /\ stats.actions_succeeded + stats.actions_failed
                 = stats.actions_executed
            /\ stats.actions_executed = stats.agents_processed
  /\ \A agent_id \in agents :
     \A choice \in [clock : Clocks, success : BOOLEAN] :
        LET p == llm_get_action(rate_limiter, success_run, agent_id,
                                current_tick, choice)
            r == execute(State, p.action)
            acc == count(TickStart(State, rate_limiter, success_run), r, p)
        IN  /\ acc.actions_executed = 1
            /\ acc.actions_succeeded =
                 (IF Succeeded(r.result) /\ ~p.llm_error THEN 1 ELSE 0)
            /\ acc.actions_failed = 1 - acc.actions_succeeded

\* a tick of two agents: the inference failed for one, whose Idle was
\* executed with success and counted as failed, and the other's action
\* succeeded
C39_Witness ==
  /\ tick_history # <<>>
  /\ LET stats == tick_history[Len(tick_history)]
     IN  /\ stats.agents_processed = 2
         /\ stats.llm_errors = 1
         /\ stats.actions_failed = 1
         /\ stats.actions_succeeded = 1
         /\ stats.agents_resting = 0

====
